---- MODULE Spec2Model ----
(***************************************************************************)
(* A model of the PCD point-cloud decoder of the 3D viewer,                *)
(* ReconstructionWindow._read_pcd in src/GUI/reconstruction_window.py, of  *)
(* the window around it (on_load, _orbit, _fit_view) and of the serial     *)
(* reader ArduinoReader in src/GUI/Arduino.py.                             *)
(*                                                                         *)
(* Text is modelled as it is tokenised by the code: a line is the sequence *)
(* of its whitespace-delimited tokens and a token is the sequence of its   *)
(* characters, so that str.lower, str.startswith, list.index, int() and    *)
(* float() are computed rather than assumed.  A coordinate is an IEEE-754  *)
(* binary32 value [s, e, m] (sign, biased exponent, mantissa); widening it *)
(* to a 64-bit float is exact, so the 64-bit value the code holds is       *)
(* identified by those three numbers.                                      *)
(***************************************************************************)
EXTENDS Integers, Sequences, FiniteSets, TLC

VARIABLES
    written,        \* what the producer of the file put into it
    fh,             \* the opened file: header lines and the payload behind them
    LZ4_AVAILABLE,  \* module flag: lz4.frame could be imported
    pc,             \* position of the call in _read_pcd
    header_lines,   \* lines read by the header loop
    data_type,      \* second token of the DATA line, lowered; Unbound if no DATA line
    hdr,            \* [fields, size, types, count, num_points] as resolved from the header
    raw,            \* payload buffer: None, or the bytes read / decompressed
    uncomp_size,    \* None, or the uncompressed size declared by the block header
    remaining,      \* bytes of the stream not yet consumed by a read
    layout,         \* [sizes, types_l, counts, bytes_per_point, num_points]
    structured,     \* records produced by np.frombuffer
    codecs,         \* decompressors attempted, in order
    result,         \* NoResult, [status |-> "ok", points] or [status |-> "error", kind]
    mesh,           \* self.mesh: None, or the geometry of the last successful load
    plotter,        \* self.plotter: None, or the scene it shows
    info_label,     \* text of self.info_label
    second,         \* the locals of a second call of _read_pcd, NoCall when there is none
    cam_az,         \* self.cam_az: azimuth of the camera, degrees
    cam_el,         \* self.cam_el: elevation of the camera, degrees
    clicked,        \* the camera control clicked last, None before any click
    arduino         \* an ArduinoReader, its background thread and the call in progress on it

vars == <<written, fh, LZ4_AVAILABLE, pc, header_lines, data_type, hdr, raw, uncomp_size,
          remaining, layout, structured, codecs, result, mesh, plotter, info_label, second,
          cam_az, cam_el, clicked, arduino>>

\* the camera of the window
camera == <<cam_az, cam_el, clicked>>

\* the file and the locals of the call of _read_pcd
decoder == <<written, fh, LZ4_AVAILABLE, pc, header_lines, data_type, hdr, raw, uncomp_size,
             remaining, layout, structured, codecs, result>>

\* what a call of _read_pcd never touches: the window's attributes, the
\* locals of any other call, and the serial reader
caller == <<mesh, plotter, info_label, second, camera, arduino>>

----------------------------------------------------------------------------
(* Python values *)

None == <<>>
Some(v) == <<v>>
Unbound == <<"<unbound>">>

Ok(points) == [status |-> "ok", points |-> points]
Err(kind) == [status |-> "error", kind |-> kind]
NoResult == [status |-> "running"]

\* The ValueErrors _read_pcd raises itself, named as in the error taxonomy.
EmptyPointCloud == "EmptyPointCloud"            \* "No points parsed from ASCII PCD."
InvalidBlockHeader == "InvalidBlockHeader"      \* "Invalid binary_compressed PCD header."
TruncatedPayload == "TruncatedPayload"          \* "Unexpected EOF reading compressed payload."
DecompressionFailed == "DecompressionFailed"    \* "Failed to decompress binary_compressed PCD payload."
IncompleteLayout == "IncompleteLayout"          \* "Incomplete PCD header for binary parsing."
NoBinaryData == "NoBinaryData"                  \* "No binary point data available."
UnsupportedFieldType == "UnsupportedFieldType"  \* "Unsupported PCD field type: ..."
UnsupportedDataType == "UnsupportedDataType"    \* "Unsupported PCD DATA type: ..."
\* Exceptions raised by the interpreter or by numpy on the way.
UnboundLocalError == "UnboundLocalError"
IndexError == "IndexError"
KeyError == "KeyError"
ZeroDivisionError == "ZeroDivisionError"
IntValueError == "ValueError: invalid literal for int()"
NumpyValueError == "ValueError: numpy"

----------------------------------------------------------------------------
(* str.lower, str.upper, str.startswith on tokens *)

UpperChars == <<"A","B","C","D","E","F","G","H","I","J","K","L","M",
                "N","O","P","Q","R","S","T","U","V","W","X","Y","Z">>
LowerChars == <<"a","b","c","d","e","f","g","h","i","j","k","l","m",
                "n","o","p","q","r","s","t","u","v","w","x","y","z">>

IndexIn(seq, c) == CHOOSE i \in 1..Len(seq) : seq[i] = c
Occurs(seq, c) == \E i \in 1..Len(seq) : seq[i] = c

ToLower == [c \in {UpperChars[i] : i \in 1..26} |-> LowerChars[IndexIn(UpperChars, c)]]
ToUpper == [c \in {LowerChars[i] : i \in 1..26} |-> UpperChars[IndexIn(LowerChars, c)]]

lower_char(c) == IF c \in DOMAIN ToLower THEN ToLower[c] ELSE c
upper_char(c) == IF c \in DOMAIN ToUpper THEN ToUpper[c] ELSE c

lower(s) == [i \in 1..Len(s) |-> lower_char(s[i])]
upper(s) == [i \in 1..Len(s) |-> upper_char(s[i])]

startswith(s, prefix) == Len(s) >= Len(prefix) /\ SubSeq(s, 1, Len(prefix)) = prefix

\* A stripped line starts with a prefix that holds no blank exactly when its
\* first token does.
line_startswith(ln, prefix) ==
    /\ ln # <<>>
    /\ Len(ln[1]) >= Len(prefix)
    /\ lower(SubSeq(ln[1], 1, Len(prefix))) = prefix

\* list.index: position (from 0) of the first occurrence.
index(seq, v) == (CHOOSE i \in 1..Len(seq) : seq[i] = v /\ \A j \in 1..(i-1) : seq[j] # v) - 1

Max(a, b) == IF a >= b THEN a ELSE b
Min(a, b) == IF a <= b THEN a ELSE b

----------------------------------------------------------------------------
(* int() and float() on tokens *)

Digits == <<"0","1","2","3","4","5","6","7","8","9">>
DigitValue == [c \in {Digits[i] : i \in 1..10} |-> IndexIn(Digits, c) - 1]
IsDigit(c) == c \in DOMAIN DigitValue
DigitVal(c) == DigitValue[c]

Unsigned(t) == IF t # <<>> /\ t[1] \in {"-", "+"} THEN Tail(t) ELSE t
IsNegative(t) == t # <<>> /\ t[1] = "-"
AllDigits(d) == d # <<>> /\ \A i \in 1..Len(d) : IsDigit(d[i])

RECURSIVE DigitsVal(_)
DigitsVal(d) == IF d = <<>> THEN 0
                ELSE 10 * DigitsVal(SubSeq(d, 1, Len(d) - 1)) + DigitVal(d[Len(d)])

\* int(token): an optional sign and decimal digits; anything else raises ValueError.
int_ok(t) == AllDigits(Unsigned(t))
int(t) == IF IsNegative(t) THEN 0 - DigitsVal(Unsigned(t)) ELSE DigitsVal(Unsigned(t))

\* binary32 values
F(s, e, m) == [s |-> s, e |-> e, m |-> m]
NaN == F(0, 255, 4194304)
Inf(s) == F(s, 255, 0)

RECURSIVE Pow2(_)
Pow2(k) == IF k = 0 THEN 1 ELSE 2 * Pow2(k - 1)

RECURSIVE Log2(_)
Log2(a) == IF a <= 1 THEN 0 ELSE 1 + Log2(a \div 2)

\* The float whose value is the integer n.  Below 2^24 it is a binary32; a
\* larger one is finite and keeps its own value (wide), equal to no binary32
\* written here.
IntToFloat(n) ==
    LET a == IF n < 0 THEN 0 - n ELSE n
        k == Log2(a)
    IN  IF a = 0 THEN F(0, 0, 0)
        ELSE IF a >= 16777216
             THEN [s |-> IF n < 0 THEN 1 ELSE 0, e |-> 0, m |-> 0, wide |-> <<n>>]
        ELSE F(IF n < 0 THEN 1 ELSE 0, 127 + k, (a - Pow2(k)) * Pow2(23 - k))

\* A decimal literal with a zero fraction: digits "." zeros.
IsWholeDecimal(d) ==
    /\ Occurs(d, ".")
    /\ LET p == CHOOSE i \in 1..Len(d) : d[i] = "." /\ \A j \in 1..(i-1) : d[j] # "."
       IN  /\ AllDigits(SubSeq(d, 1, p - 1))
           /\ \A j \in (p+1)..Len(d) : d[j] = "0"
WholePart(d) ==
    LET p == CHOOSE i \in 1..Len(d) : d[i] = "." /\ \A j \in 1..(i-1) : d[j] # "."
    IN  SubSeq(d, 1, p - 1)

\* float(token).  The literals modelled are: an optional sign followed by
\* decimal digits, by digits with a zero fraction, or by nan / inf / infinity
\* in any case.  Every other token raises ValueError.
float_ok(t) ==
    LET u == Unsigned(t)
    IN  ~(~AllDigits(u) /\ ~IsWholeDecimal(u)
          /\ lower(u) \notin {<<"n","a","n">>, <<"i","n","f">>,
                              <<"i","n","f","i","n","i","t","y">>})
float(t) ==
    LET u == Unsigned(t)
        neg == IsNegative(t)
    IN  IF lower(u) = <<"n","a","n">> THEN NaN
        ELSE IF lower(u) \in {<<"i","n","f">>, <<"i","n","f","i","n","i","t","y">>}
             THEN Inf(IF neg THEN 1 ELSE 0)
        ELSE LET n == IF AllDigits(u) THEN DigitsVal(u) ELSE DigitsVal(WholePart(u))
                 v == IntToFloat(n)
             IN  F(IF neg THEN 1 ELSE 0, v.e, v.m)

\* np.isfinite
isfinite(v) == v.e # 255

----------------------------------------------------------------------------
(* Header loop: lines 106-119 *)

kw_data == <<"d","a","t","a">>
kw_ascii == <<"a","s","c","i","i">>
kw_binary == <<"b","i","n","a","r","y">>
kw_binary_compressed == kw_binary \o <<"_","c","o","m","p","r","e","s","s","e","d">>

\* Index of the first line that starts with "data", 0 if the stream ends first.
DataLineAt(lines) ==
    IF \E i \in 1..Len(lines) : line_startswith(lines[i], kw_data)
    THEN CHOOSE i \in 1..Len(lines) :
            /\ line_startswith(lines[i], kw_data)
            /\ \A j \in 1..(i-1) : ~line_startswith(lines[j], kw_data)
    ELSE 0

\* header_lines after the loop: every line up to and including the DATA line.
HeaderLines(lines) ==
    IF DataLineAt(lines) = 0 THEN lines ELSE SubSeq(lines, 1, DataLineAt(lines))

\* data_type after the loop; the name is never assigned when no DATA line was read.
DataType(lines) ==
    LET d == DataLineAt(lines)
    IN  IF d = 0 THEN Unbound
        ELSE IF Len(lines[d]) > 1 THEN lower(lines[d][2]) ELSE kw_binary

----------------------------------------------------------------------------
(* Directive lookup and point-count resolution: lines 121-147 *)

kw_fields == <<"f","i","e","l","d","s">>
kw_field == <<"f","i","e","l","d">>
kw_size == <<"s","i","z","e">>
kw_type == <<"t","y","p","e">>
kw_count == <<"c","o","u","n","t">>
kw_points == <<"p","o","i","n","t","s">>
kw_width == <<"w","i","d","t","h">>
kw_height == <<"h","e","i","g","h","t">>

\* the scan of the header given up at the POINTS line
_get_until_points(lines, prefix) ==
    LET stop == IF \E i \in 1..Len(lines) : line_startswith(lines[i], kw_points)
                THEN CHOOSE i \in 1..Len(lines) :
                        /\ line_startswith(lines[i], kw_points)
                        /\ \A j \in 1..(i-1) : ~line_startswith(lines[j], kw_points)
                ELSE Len(lines)
    IN  IF \E i \in 1..stop : line_startswith(lines[i], prefix)
        THEN Tail(lines[CHOOSE i \in 1..stop :
                          /\ line_startswith(lines[i], prefix)
                          /\ \A j \in 1..(i-1) : ~line_startswith(lines[j], prefix)])
        ELSE None

\* _get(prefix): the tokens after the first of the first line that starts with
\* the prefix, None when no line does.  None and the empty list are both
\* falsy and the code only ever tests the truth of the value, so both are <<>>.
_get(lines, prefix) ==
    IF \E i \in 1..Len(lines) : line_startswith(lines[i], prefix)
    THEN Tail(lines[CHOOSE i \in 1..Len(lines) :
                      /\ line_startswith(lines[i], prefix)
                      /\ \A j \in 1..(i-1) : ~line_startswith(lines[j], prefix)])
    ELSE None

Truthy(v) == v # <<>>

\* lines 135-147
NumPoints(points_tok, width_tok, height_tok) ==
    IF Truthy(points_tok)
    THEN IF int_ok(points_tok[1]) THEN Some(int(points_tok[1])) ELSE None
    ELSE IF (Truthy(width_tok) /\ ~int_ok(width_tok[1])) THEN None
    ELSE IF (Truthy(height_tok) /\ ~int_ok(height_tok[1])) THEN None
    ELSE LET w == IF Truthy(width_tok) THEN int(width_tok[1]) ELSE 0
             h == IF Truthy(height_tok) THEN int(height_tok[1]) ELSE 0
         IN  IF w # 0 /\ h # 0 THEN Some(w * h) ELSE None

\* lines 127-147
ResolveHeader(lines) ==
    [ fields |-> IF Truthy(_get(lines, kw_fields)) THEN _get(lines, kw_fields)
                 ELSE _get(lines, kw_field),
      size |-> _get(lines, kw_size),
      types |-> _get(lines, kw_type),
      count |-> _get(lines, kw_count),
      num_points |-> NumPoints(_get(lines, kw_points), _get(lines, kw_width),
                               _get(lines, kw_height)) ]

NoHeader == [fields |-> None, size |-> None, types |-> None, count |-> None,
             num_points |-> None]

----------------------------------------------------------------------------
(* ASCII payload: lines 149-175 *)

name_x == <<"x">>
name_y == <<"y">>
name_z == <<"z">>

lower_all(toks) == [i \in 1..Len(toks) |-> lower(toks[i])]
upper_all(toks) == [i \in 1..Len(toks) |-> upper(toks[i])]

\* lines 152-158: each column falls back on its own
ascii_columns(fields) ==
    LET fields_l == IF Truthy(fields) THEN lower_all(fields) ELSE <<>>
    IN  << IF Occurs(fields_l, name_x) THEN index(fields_l, name_x) ELSE 0,
           IF Occurs(fields_l, name_y) THEN index(fields_l, name_y) ELSE 1,
           IF Occurs(fields_l, name_z) THEN index(fields_l, name_z) ELSE 2 >>

\* lines 160-171: the row is blank, a comment, too short, or does not parse
row_skipped(row, cols) ==
    IF row = <<>> THEN TRUE
    ELSE IF startswith(row[1], <<"#">>) THEN TRUE
    ELSE IF Len(row) <= Max(cols[1], Max(cols[2], cols[3])) THEN TRUE
    ELSE ~(float_ok(row[cols[1] + 1]) /\ float_ok(row[cols[2] + 1])
           /\ float_ok(row[cols[3] + 1]))

row_point(row, cols) ==
    << float(row[cols[1] + 1]), float(row[cols[2] + 1]), float(row[cols[3] + 1]) >>

\* the loop leaving at the first row it cannot use, instead of going on
RECURSIVE ascii_pts_break(_, _)
ascii_pts_break(rows, cols) ==
    IF rows = <<>> THEN <<>>
    ELSE IF row_skipped(Head(rows), cols) THEN <<>>
    ELSE <<row_point(Head(rows), cols)>> \o ascii_pts_break(Tail(rows), cols)

\* lines 159-172: the loop over the rows, appending in row order
RECURSIVE ascii_pts(_, _)
ascii_pts(rows, cols) ==
    IF rows = <<>> THEN <<>>
    ELSE IF row_skipped(Head(rows), cols) THEN ascii_pts(Tail(rows), cols)
    ELSE <<row_point(Head(rows), cols)>> \o ascii_pts(Tail(rows), cols)

\* lines 150-175
DecodeAscii(rows, fields) ==
    LET pts == ascii_pts(rows, ascii_columns(fields))
    IN  IF pts = <<>> THEN Err(EmptyPointCloud) ELSE Ok(pts)

----------------------------------------------------------------------------
(* Compressed block: lines 177-210 *)

\* file.read(n): n bytes, fewer at end of stream, all of it when n is negative
read(bytes, n) == IF n < 0 THEN bytes ELSE SubSeq(bytes, 1, Min(n, Len(bytes)))

\* struct.unpack("<I", b)
U32LE(b) == b[1] + 256 * b[2] + 65536 * b[3] + 16777216 * b[4]

\* The decompressors are library calls.  A compressed buffer is described by
\* the container format it was written in (fmt), the bytes it holds (body),
\* its full length (clen) and how many of its bytes were read (got).  Each
\* library accepts the buffers of its own format that are complete, and
\* raises on everything else; zlib ignores bytes after the end of a stream.
zlib_decompress(comp) ==
    IF comp.fmt = "zlib" /\ comp.got >= comp.clen THEN Some(comp.body) ELSE None
gzip_decompress(comp) ==
    IF comp.fmt = "gzip" /\ comp.got = comp.clen THEN Some(comp.body) ELSE None
lz4frame_decompress(comp) ==
    IF comp.fmt = "lz4" /\ comp.got = comp.clen THEN Some(comp.body) ELSE None
raw_inflate(comp) ==
    IF comp.fmt = "deflate" /\ comp.got >= comp.clen THEN Some(comp.body) ELSE None

\* the chain cut down to its first codec
decompress_chain_zlib_only(comp, lz4_available) ==
    [decompressed |-> zlib_decompress(comp), tried |-> <<"zlib">>]

\* the chain without its guards: every codec runs, the last success is kept
decompress_chain_unguarded(comp, lz4_available) ==
    LET d1 == zlib_decompress(comp)
        d2 == IF gzip_decompress(comp) # None THEN gzip_decompress(comp) ELSE d1
        d3 == IF lz4_available /\ lz4frame_decompress(comp) # None
              THEN lz4frame_decompress(comp) ELSE d2
        d4 == IF raw_inflate(comp) # None THEN raw_inflate(comp) ELSE d3
    IN  [ decompressed |-> d4,
          tried |-> <<"zlib", "gzip">> \o (IF lz4_available THEN <<"lz4">> ELSE <<>>)
                    \o <<"deflate">> ]

\* lines 188-207: each step runs only while decompressed is still None
decompress_chain(comp, lz4_available) ==
    LET d1 == zlib_decompress(comp)
        d2 == IF d1 = None THEN gzip_decompress(comp) ELSE d1
        d3 == IF d2 = None /\ lz4_available THEN lz4frame_decompress(comp) ELSE d2
        d4 == IF d3 = None THEN raw_inflate(comp) ELSE d3
    IN  [ decompressed |-> d4,
          tried |-> <<"zlib">>
                    \o (IF d1 = None THEN <<"gzip">> ELSE <<>>)
                    \o (IF d2 = None /\ lz4_available THEN <<"lz4">> ELSE <<>>)
                    \o (IF d3 = None THEN <<"deflate">> ELSE <<>>) ]

\* the block handed to the codecs without the check of its length
ReadCompressed_unchecked(file, lz4_available) ==
    LET head == read(file.bytes, 8)
        comp_size == U32LE(SubSeq(head, 1, 4))
        usize == U32LE(SubSeq(head, 5, 8))
        got == Min(comp_size, file.avail)
        comp == [fmt |-> file.stream.fmt, body |-> file.stream.body,
                 clen |-> file.stream.clen, got |-> got]
        chain == decompress_chain(comp, lz4_available)
        failed(kind) == [error |-> Some(kind), raw |-> None, uncomp_size |-> None,
                         remaining |-> 0, tried |-> <<>>]
    IN  IF Len(head) # 8 THEN failed(InvalidBlockHeader)
        ELSE IF chain.decompressed = None
             THEN [failed(DecompressionFailed) EXCEPT !.tried = chain.tried]
        ELSE [error |-> None, raw |-> chain.decompressed, uncomp_size |-> Some(usize),
              remaining |-> file.avail - got, tried |-> chain.tried]

\* lines 179-210, for a file whose payload is an 8-byte block header
\* (file.bytes) followed by file.avail bytes of the compressed stream
ReadCompressed(file, lz4_available) ==
    LET head == read(file.bytes, 8)
        comp_size == U32LE(SubSeq(head, 1, 4))
        usize == U32LE(SubSeq(head, 5, 8))
        got == Min(comp_size, file.avail)
        comp == [fmt |-> file.stream.fmt, body |-> file.stream.body,
                 clen |-> file.stream.clen, got |-> got]
        chain == decompress_chain(comp, lz4_available)
        failed(kind) == [error |-> Some(kind), raw |-> None, uncomp_size |-> None,
                         remaining |-> 0, tried |-> <<>>]
    IN  IF Len(head) # 8 THEN failed(InvalidBlockHeader)
        ELSE IF got # comp_size THEN failed(TruncatedPayload)
        ELSE IF chain.decompressed = None
             THEN [failed(DecompressionFailed) EXCEPT !.tried = chain.tried]
        ELSE [error |-> None, raw |-> chain.decompressed, uncomp_size |-> Some(usize),
              remaining |-> file.avail - got, tried |-> chain.tried]

----------------------------------------------------------------------------
(* Record layout and payload read: lines 212-237 *)

RECURSIVE Sum(_)
Sum(seq) == IF seq = <<>> THEN 0 ELSE Head(seq) + Sum(Tail(seq))

ints(toks) == [i \in 1..Len(toks) |-> int(toks[i])]
all_int(toks) == \A i \in 1..Len(toks) : int_ok(toks[i])

\* Python's floor division
floordiv(a, b) == IF b > 0 THEN a \div b ELSE (0 - a) \div (0 - b)

\* line 215
sizes_of(h) == ints(h.size)
\* line 216
types_of(h) == upper_all(h.types)
\* line 217
counts_of(h) == IF Truthy(h.count) THEN ints(h.count) ELSE [i \in 1..Len(h.fields) |-> 1]
\* line 218
bytes_per_point_of(h) ==
    Sum([i \in 1..Len(sizes_of(h)) |-> sizes_of(h)[i] * counts_of(h)[i]])

\* lines 213-218: the exception raised on the way to bytes_per_point, if any
layout_error(h) ==
    IF ~(Truthy(h.fields) /\ Truthy(h.size) /\ Truthy(h.types)) THEN Some(IncompleteLayout)
    ELSE IF ~all_int(h.size) THEN Some(IntValueError)
    ELSE IF Truthy(h.count) /\ ~all_int(h.count) THEN Some(IntValueError)
    ELSE IF Len(counts_of(h)) < Len(sizes_of(h)) THEN Some(IndexError)
    ELSE None

\* lines 219-228: num_points when the header left it None
inferred_points(bpp, usize, data_size) ==
    IF usize # None /\ usize # Some(0) THEN floordiv(usize[1], bpp)
    ELSE Max(0, floordiv(data_size, bpp))

\* a short payload refused outright, with no recount of the records present
ReadBinary_no_recount(h, buf, usize, data_size, bytes) ==
    LET bpp == bytes_per_point_of(h)
        declared == IF h.num_points = None THEN inferred_points(bpp, usize, data_size)
                    ELSE h.num_points[1]
        expected == declared * bpp
        got == IF buf = None THEN read(bytes, expected) ELSE buf[1]
        failed(kind) == [error |-> Some(kind), raw |-> None, layout |-> <<>>]
    IN  IF layout_error(h) # None THEN failed(layout_error(h)[1])
        ELSE IF h.num_points = None /\ bpp = 0 THEN failed(ZeroDivisionError)
        ELSE IF Len(got) < expected THEN failed(NoBinaryData)
        ELSE [error |-> None, raw |-> Some(got),
              layout |-> [sizes |-> sizes_of(h), types_l |-> types_of(h),
                          counts |-> counts_of(h), bytes_per_point |-> bpp,
                          num_points |-> declared]]

\* the declared uncompressed size taken as the record count even when the
\* header gives one
ReadBinary_trusts_declared(h, buf, usize, data_size, bytes) ==
    LET bpp == bytes_per_point_of(h)
        declared == IF usize # None /\ usize # Some(0) /\ bpp # 0
                    THEN floordiv(usize[1], bpp)
                    ELSE IF h.num_points = None THEN inferred_points(bpp, usize, data_size)
                    ELSE h.num_points[1]
        expected == declared * bpp
        got == IF buf = None THEN read(bytes, expected) ELSE buf[1]
        avail == floordiv(Len(got), bpp)
        failed(kind) == [error |-> Some(kind), raw |-> None, layout |-> <<>>]
        done(r, n) == [error |-> None, raw |-> Some(r),
                       layout |-> [sizes |-> sizes_of(h), types_l |-> types_of(h),
                                   counts |-> counts_of(h), bytes_per_point |-> bpp,
                                   num_points |-> n]]
    IN  IF layout_error(h) # None THEN failed(layout_error(h)[1])
        ELSE IF h.num_points = None /\ bpp = 0 THEN failed(ZeroDivisionError)
        ELSE IF Len(got) < expected
             THEN IF avail = 0 THEN failed(NoBinaryData)
                  ELSE done(SubSeq(got, 1, Min(avail * bpp, Len(got))), avail)
        ELSE done(got, declared)

\* lines 212-237.  buf is the decompressed buffer or None, data_size the bytes
\* left in the stream, bytes the stream itself (read when buf is None).
ReadBinary(h, buf, usize, data_size, bytes) ==
    LET bpp == bytes_per_point_of(h)
        declared == IF h.num_points = None THEN inferred_points(bpp, usize, data_size)
                    ELSE h.num_points[1]
        expected == declared * bpp
        got == IF buf = None THEN read(bytes, expected) ELSE buf[1]
        avail == floordiv(Len(got), bpp)
        failed(kind) == [error |-> Some(kind), raw |-> None, layout |-> <<>>]
        done(r, n) == [error |-> None, raw |-> Some(r),
                       layout |-> [sizes |-> sizes_of(h), types_l |-> types_of(h),
                                   counts |-> counts_of(h), bytes_per_point |-> bpp,
                                   num_points |-> n]]
    IN  IF layout_error(h) # None THEN failed(layout_error(h)[1])
        ELSE IF h.num_points = None /\ bpp = 0 THEN failed(ZeroDivisionError)
        ELSE IF Len(got) < expected
             THEN IF avail = 0 THEN failed(NoBinaryData)
                  ELSE done(SubSeq(got, 1, Min(avail * bpp, Len(got))), avail)
        ELSE done(got, declared)

----------------------------------------------------------------------------
(* Record dtype and np.frombuffer: lines 239-257 *)

IntSizes == {1, 2, 4, 8}

\* lines 241-251 for field i: the exception raised, if any
field_error(lay, i) ==
    IF i > Len(lay.sizes) THEN Some(IndexError)
    ELSE IF i > Len(lay.types_l) THEN Some(IndexError)
    ELSE IF i > Len(lay.counts) THEN Some(IndexError)
    ELSE IF lay.types_l[i] = <<"F">> THEN None
    ELSE IF lay.types_l[i] \in {<<"I">>, <<"U">>}
         THEN IF lay.sizes[i] \in IntSizes THEN None ELSE Some(KeyError)
    ELSE Some(UnsupportedFieldType)

\* lines 244-249: the numpy base type of field i, as [kind, size]
base_of(lay, i) ==
    IF lay.types_l[i] = <<"F">>
    THEN [kind |-> "f", size |-> IF lay.sizes[i] = 4 THEN 4 ELSE 8]
    ELSE IF lay.types_l[i] = <<"I">> THEN [kind |-> "i", size |-> lay.sizes[i]]
    ELSE [kind |-> "u", size |-> lay.sizes[i]]

\* lines 239-255: the first field that raises decides
dtype_error(fields, lay) ==
    IF \E i \in 1..Len(fields) : field_error(lay, i) # None
    THEN field_error(lay, CHOOSE i \in 1..Len(fields) :
                            /\ field_error(lay, i) # None
                            /\ \A j \in 1..(i-1) : field_error(lay, j) = None)
    ELSE None

\* np.dtype(dtype_elems): one entry per field, [name, base, count, offset]
dtype_elems(fields, lay) ==
    [i \in 1..Len(fields) |->
        [name |-> fields[i], base |-> base_of(lay, i), count |-> lay.counts[i],
         offset |-> Sum([j \in 1..(i-1) |-> base_of(lay, j).size * lay.counts[j]])]]

itemsize(dt) == Sum([i \in 1..Len(dt) |-> dt[i].base.size * dt[i].count])

\* np.dtype refuses a repeated field name and a negative shape; np.frombuffer
\* refuses an itemsize of 0 and a buffer that is not a whole number of items.
numpy_error(dt, buf) ==
    IF \E i, j \in 1..Len(dt) : i # j /\ dt[i].name = dt[j].name THEN Some(NumpyValueError)
    ELSE IF \E i \in 1..Len(dt) : dt[i].count < 0 THEN Some(NumpyValueError)
    ELSE IF itemsize(dt) = 0 THEN Some(NumpyValueError)
    ELSE IF Len(buf) % itemsize(dt) # 0 THEN Some(NumpyValueError)
    ELSE None

\* lines 239-257: the structured array is a view of the buffer
BuildRecords(fields, lay, buf) ==
    LET dt == dtype_elems(fields, lay)
        failed(kind) == [error |-> Some(kind), structured |-> <<>>]
    IN  IF dtype_error(fields, lay) # None THEN failed(dtype_error(fields, lay)[1])
        ELSE IF numpy_error(dt, buf) # None THEN failed(numpy_error(dt, buf)[1])
        ELSE [error |-> None,
              structured |-> [dtype |-> dt, n |-> Len(buf) \div itemsize(dt), buf |-> buf]]

----------------------------------------------------------------------------
(* Column extraction: lines 258-314 *)

\* the four bytes taken in big-endian order
f4_big_endian(b) == F(b[1] \div 128, (b[1] % 128) * 2 + b[2] \div 128,
                      (b[2] % 128) * 65536 + b[3] * 256 + b[4])

\* "<f4" read as a float
f4(b) == F(b[4] \div 128, (b[4] % 128) * 2 + b[3] \div 128,
           (b[3] % 128) * 65536 + b[2] * 256 + b[1])

\* "<f8" read as a float.  A double that a binary32 holds exactly is that
\* value; any other keeps its own fields (wide) so that it equals no binary32.
f8(b) ==
    LET s == b[8] \div 128
        e11 == (b[8] % 128) * 16 + b[7] \div 16
        hi == (b[7] % 16) * 524288 + b[6] * 2048 + b[5] * 8 + b[4] \div 32
        lo == <<b[4] % 32, b[3], b[2], b[1]>>
    IN  IF lo = <<0, 0, 0, 0>> /\ e11 = 2047 THEN F(s, 255, hi)
        ELSE IF lo = <<0, 0, 0, 0>> /\ e11 = 0 /\ hi = 0 THEN F(s, 0, 0)
        ELSE IF lo = <<0, 0, 0, 0>> /\ e11 > 896 /\ e11 < 1151 THEN F(s, e11 - 896, hi)
        ELSE [s |-> s, e |-> IF e11 = 2047 THEN 255 ELSE 0, m |-> hi, wide |-> <<e11, lo>>]

\* little-endian integers, widened to float (astype(float))
RECURSIVE ule(_)
ule(b) == IF b = <<>> THEN 0 ELSE Head(b) + 256 * ule(Tail(b))
sle(b) == IF b[Len(b)] < 128 THEN ule(b)
          ELSE 0 - (ule([i \in 1..Len(b) |-> 255 - b[i]]) + 1)

to_float(base, b) ==
    IF base.kind = "f" THEN (IF base.size = 4 THEN f4(b) ELSE f8(b))
    ELSE IF base.kind = "i" THEN IntToFloat(sle(b))
    ELSE IntToFloat(ule(b))

\* lines 258-264: one missing name sends all three columns to 0, 1, 2
binary_columns(fields) ==
    LET fields_l == lower_all(fields)
    IN  IF Occurs(fields_l, name_x) /\ Occurs(fields_l, name_y) /\ Occurs(fields_l, name_z)
        THEN <<index(fields_l, name_x), index(fields_l, name_y), index(fields_l, name_z)>>
        ELSE <<0, 1, 2>>

\* lines 267-302: _to_float(_get_arr(name)) for record k (from 0) and the
\* field at position col (from 0); the first element of a multi-count field
column_value(st, k, col) ==
    LET fld == st.dtype[col + 1]
        at == k * itemsize(st.dtype) + fld.offset
    IN  to_float(fld.base, SubSeq(st.buf, at + 1, at + fld.base.size))

\* lines 304-306: fields[xi] or arr[:, 0] may raise IndexError
column_error(fields, st, cols) ==
    IF \E c \in 1..3 : cols[c] >= Len(fields) THEN Some(IndexError)
    ELSE IF \E c \in 1..3 : st.dtype[cols[c] + 1].count = 0 THEN Some(IndexError)
    ELSE None

record_point(st, k, cols) ==
    << column_value(st, k, cols[1]), column_value(st, k, cols[2]),
       column_value(st, k, cols[3]) >>

point_finite(p) == isfinite(p[1]) /\ isfinite(p[2]) /\ isfinite(p[3])

\* lines 312-313: rows k .. n-1 that pass the finite mask, in row order
RECURSIVE masked_rows(_, _, _)
masked_rows(st, k, cols) ==
    IF k >= st.n THEN <<>>
    ELSE IF point_finite(record_point(st, k, cols))
         THEN <<record_point(st, k, cols)>> \o masked_rows(st, k + 1, cols)
    ELSE masked_rows(st, k + 1, cols)

\* lines 258-314
ExtractPoints(fields, st) ==
    LET cols == binary_columns(fields)
    IN  IF column_error(fields, st, cols) # None THEN Err(column_error(fields, st, cols)[1])
        ELSE Ok(masked_rows(st, 0, cols))

----------------------------------------------------------------------------
(* _read_pcd as a whole: lines 104-316 *)

is_binary(dt) == startswith(dt, kw_binary)
is_compressed(dt) == startswith(dt, kw_binary_compressed)

ReadPcd(file, lz4_available) ==
    LET dt == DataType(file.lines)
        h == ResolveHeader(HeaderLines(file.lines))
        blk == ReadCompressed(file, lz4_available)
        rb == IF is_compressed(dt)
              THEN ReadBinary(h, blk.raw, blk.uncomp_size, blk.remaining, file.bytes)
              ELSE ReadBinary(h, None, None, Len(file.bytes), file.bytes)
        recs == BuildRecords(h.fields, rb.layout, rb.raw[1])
    IN  IF dt = Unbound THEN Err(UnboundLocalError)
        ELSE IF dt = kw_ascii THEN DecodeAscii(file.rows, h.fields)
        ELSE IF is_compressed(dt) /\ blk.error # None THEN Err(blk.error[1])
        ELSE IF ~is_binary(dt) THEN Err(UnsupportedDataType)
        ELSE IF rb.error # None THEN Err(rb.error[1])
        ELSE IF recs.error # None THEN Err(recs.error[1])
        ELSE ExtractPoints(h.fields, recs.structured)

----------------------------------------------------------------------------
(* The steps of one call *)

\* lines 106-119
HeaderLoop ==
    /\ pc = "start"
    /\ header_lines' = HeaderLines(fh.lines)
    /\ data_type' = DataType(fh.lines)
    /\ remaining' = Len(fh.bytes)
    /\ pc' = "header"
    /\ UNCHANGED <<caller, written, fh, LZ4_AVAILABLE, hdr, raw, uncomp_size, layout, structured,
                   codecs, result>>

\* lines 121-147
Resolve ==
    /\ pc = "header"
    /\ hdr' = ResolveHeader(header_lines)
    /\ pc' = "resolved"
    /\ UNCHANGED <<caller, written, fh, LZ4_AVAILABLE, header_lines, data_type, raw, uncomp_size,
                   remaining, layout, structured, codecs, result>>

\* line 149 when the header loop never bound data_type
NoDataLine ==
    /\ pc = "resolved"
    /\ data_type = Unbound
    /\ result' = Err(UnboundLocalError)
    /\ pc' = "done"
    /\ UNCHANGED <<caller, written, fh, LZ4_AVAILABLE, header_lines, data_type, hdr, raw, uncomp_size,
                   remaining, layout, structured, codecs>>

\* lines 149-175
Ascii ==
    /\ pc = "resolved"
    /\ data_type = kw_ascii
    /\ result' = DecodeAscii(fh.rows, hdr.fields)
    /\ pc' = "done"
    /\ UNCHANGED <<caller, written, fh, LZ4_AVAILABLE, header_lines, data_type, hdr, raw, uncomp_size,
                   remaining, layout, structured, codecs>>

\* lines 177-210
Block ==
    /\ pc = "resolved"
    /\ data_type # Unbound
    /\ data_type # kw_ascii
    /\ LET blk == ReadCompressed(fh, LZ4_AVAILABLE)
       IN  IF ~is_compressed(data_type)
           THEN /\ raw' = None
                /\ uncomp_size' = None
                /\ pc' = "payload"
                /\ UNCHANGED <<remaining, codecs, result>>
           ELSE /\ raw' = blk.raw
                /\ uncomp_size' = blk.uncomp_size
                /\ remaining' = blk.remaining
                /\ codecs' = blk.tried
                /\ result' = IF blk.error # None THEN Err(blk.error[1]) ELSE result
                /\ pc' = IF blk.error # None THEN "done" ELSE "payload"
    /\ UNCHANGED <<caller, written, fh, LZ4_AVAILABLE, header_lines, data_type, hdr, layout, structured>>

\* a failed payload read sent back to the stage before it
Read_retries ==
    /\ pc = "payload"
    /\ is_binary(data_type)
    /\ LET rb == ReadBinary(hdr, raw, uncomp_size, remaining, fh.bytes)
       IN  /\ raw' = IF rb.error # None THEN raw ELSE rb.raw
           /\ layout' = rb.layout
           /\ result' = result
           /\ pc' = IF rb.error # None THEN "resolved" ELSE "read"
    /\ UNCHANGED <<caller, written, fh, LZ4_AVAILABLE, header_lines, data_type, hdr, uncomp_size,
                   remaining, structured, codecs>>

\* lines 212-237
Read ==
    /\ pc = "payload"
    /\ is_binary(data_type)
    /\ LET rb == ReadBinary(hdr, raw, uncomp_size, remaining, fh.bytes)
       IN  /\ raw' = rb.raw
           /\ layout' = rb.layout
           /\ result' = IF rb.error # None THEN Err(rb.error[1]) ELSE result
           /\ pc' = IF rb.error # None THEN "done" ELSE "read"
    /\ UNCHANGED <<caller, written, fh, LZ4_AVAILABLE, header_lines, data_type, hdr, uncomp_size,
                   remaining, structured, codecs>>

\* lines 239-257
Records ==
    /\ pc = "read"
    /\ LET recs == BuildRecords(hdr.fields, layout, raw[1])
       IN  /\ structured' = recs.structured
           /\ result' = IF recs.error # None THEN Err(recs.error[1]) ELSE result
           /\ pc' = IF recs.error # None THEN "done" ELSE "records"
    /\ UNCHANGED <<caller, written, fh, LZ4_AVAILABLE, header_lines, data_type, hdr, raw, uncomp_size,
                   remaining, layout, codecs>>

\* lines 258-314
Extract ==
    /\ pc = "records"
    /\ result' = ExtractPoints(hdr.fields, structured)
    /\ pc' = "done"
    /\ UNCHANGED <<caller, written, fh, LZ4_AVAILABLE, header_lines, data_type, hdr, raw, uncomp_size,
                   remaining, layout, structured, codecs>>

\* line 316
Unsupported ==
    /\ pc = "payload"
    /\ ~is_binary(data_type)
    /\ result' = Err(UnsupportedDataType)
    /\ pc' = "done"
    /\ UNCHANGED <<caller, written, fh, LZ4_AVAILABLE, header_lines, data_type, hdr, raw, uncomp_size,
                   remaining, layout, structured, codecs>>

----------------------------------------------------------------------------
(* The viewer: on_load and _display_mesh, lines 318-369 *)

\* line 56
NoGeometryLoaded == <<"No geometry loaded.">>
\* lines 339-341: the text names the file and counts the points
Loaded(n) == <<"Loaded", n>>

\* the window as __init__ leaves it (lines 56, 68-78, 86): the interactor was
\* built and shows nothing, or could not be built
Constructed(has_plotter) ==
    [mesh |-> None, plotter |-> IF has_plotter THEN Some(<<>>) ELSE None,
     info_label |-> NoGeometryLoaded, cam_az |-> 45, cam_el |-> 30]

\* the window after an earlier load of the points has been shown
Showing(points) ==
    [mesh |-> Some(points), plotter |-> Some(points), info_label |-> Loaded(Len(points)),
     cam_az |-> 45, cam_el |-> 30]

\* lines 343-369: nothing without a plotter; else the scene is cleared and the
\* points added, and a failure of the renderer leaves the scene cleared
_display_mesh(scene, points, rendered) ==
    IF scene = None THEN None
    ELSE IF rendered THEN Some(points)
    ELSE Some(<<>>)

\* mesh.n_points
n_points(points) == Len(points)

\* the scene cleared and the label reset before the file is read
on_load_clears_first ==
    /\ pc = "done"
    /\ IF result.status = "error" \/ n_points(result.points) = 0
       THEN /\ plotter' = _display_mesh(plotter, <<>>, TRUE)
            /\ info_label' = NoGeometryLoaded
            /\ UNCHANGED mesh
       ELSE /\ mesh' = Some(result.points)
            /\ plotter' = _display_mesh(plotter, result.points, TRUE)
            /\ info_label' = Loaded(n_points(result.points))
    /\ pc' = "returned"
    /\ UNCHANGED <<written, fh, LZ4_AVAILABLE, header_lines, data_type, hdr, raw, uncomp_size,
                   remaining, layout, structured, codecs, result, second, camera, arduino>>

\* the geometry stored before it is tested for emptiness
on_load_stores_first ==
    /\ pc = "done"
    /\ IF result.status = "error"
       THEN UNCHANGED <<mesh, plotter, info_label>>
       ELSE /\ mesh' = Some(result.points)
            /\ IF n_points(result.points) = 0
               THEN UNCHANGED <<plotter, info_label>>
               ELSE /\ \E rendered \in BOOLEAN :
                          plotter' = _display_mesh(plotter, result.points, rendered)
                    /\ info_label' = Loaded(n_points(result.points))
    /\ pc' = "returned"
    /\ UNCHANGED <<written, fh, LZ4_AVAILABLE, header_lines, data_type, hdr, raw, uncomp_size,
                   remaining, layout, structured, codecs, result, second, camera, arduino>>

\* lines 322-341, from the return of _read_pcd on: an exception or an empty
\* geometry ends the handler behind a warning box; otherwise the mesh is
\* stored, shown, and the label rewritten
on_load ==
    /\ pc = "done"
    /\ IF result.status = "error"
       THEN UNCHANGED <<mesh, plotter, info_label>>
       ELSE IF n_points(result.points) = 0
            THEN UNCHANGED <<mesh, plotter, info_label>>
            ELSE /\ mesh' = Some(result.points)
                 /\ \E rendered \in BOOLEAN :
                        plotter' = _display_mesh(plotter, result.points, rendered)
                 /\ info_label' = Loaded(n_points(result.points))
    /\ pc' = "returned"
    /\ UNCHANGED <<written, fh, LZ4_AVAILABLE, header_lines, data_type, hdr, raw, uncomp_size,
                   remaining, layout, structured, codecs, result, second, camera, arduino>>

\* no second call is running
NoCall == [pc |-> "none"]

\* no ArduinoReader has been made
NoReader == [main |-> "none"]

Next ==
    \/ HeaderLoop
    \/ Resolve
    \/ NoDataLine
    \/ Ascii
    \/ Block
    \/ Read
    \/ Records
    \/ Extract
    \/ Unsupported
    \/ on_load

\* The locals at the call of _read_pcd(filename) on the file
StartLocals(w, file, lz4_available) ==
    /\ written = w
    /\ fh = file
    /\ LZ4_AVAILABLE = lz4_available
    /\ pc = "start"
    /\ header_lines = <<>>
    /\ data_type = Unbound
    /\ hdr = NoHeader
    /\ raw = None
    /\ uncomp_size = None
    /\ remaining = 0
    /\ layout = <<>>
    /\ structured = <<>>
    /\ codecs = <<>>
    /\ result = NoResult

\* the attributes of the window at that call
Viewer(v) ==
    /\ mesh = v.mesh
    /\ plotter = v.plotter
    /\ info_label = v.info_label
    /\ cam_az = v.cam_az
    /\ cam_el = v.cam_el
    /\ clicked = <<>>

\* The first load of a freshly built window, with no other call running
Start(w, file, lz4_available) ==
    /\ StartLocals(w, file, lz4_available)
    /\ Viewer(Constructed(TRUE))
    /\ second = NoCall
    /\ arduino = NoReader

----------------------------------------------------------------------------
(* The files the decoder is run on *)

MaxPoints == 2      \* records written to a binary payload
MaxRows == 3        \* rows of an ASCII payload

K_FIELDS == <<"F","I","E","L","D","S">>
K_SIZE == <<"S","I","Z","E">>
K_TYPE == <<"T","Y","P","E">>
K_COUNT == <<"C","O","U","N","T">>
K_WIDTH == <<"W","I","D","T","H">>
K_HEIGHT == <<"H","E","I","G","H","T">>
K_POINTS == <<"P","O","I","N","T","S">>
K_DATA == <<"D","A","T","A">>
K_VERSION == <<"V","E","R","S","I","O","N">>

\* the decimal numeral of n, 0 <= n < 100
Numeral(n) == IF n < 10 THEN <<Digits[n + 1]>>
              ELSE <<Digits[(n \div 10) + 1], Digits[(n % 10) + 1]>>
Numerals(ns) == [i \in 1..Len(ns) |-> Numeral(ns[i])]

\* Record layouts: x, y, z are 4-byte floats; other fields stand around them.
LayoutXYZ == [fields |-> <<name_x, name_y, name_z>>,
              size |-> <<4, 4, 4>>, types |-> <<"F", "F", "F">>, count |-> <<1, 1, 1>>]
LayoutRGB == [fields |-> <<<<"r","g","b">>, <<"X">>, <<"Y">>, <<"Z">>>>,
              size |-> <<4, 4, 4, 4>>, types |-> <<"U", "f", "f", "f">>, count |-> <<>>]
LayoutMulti == [fields |-> <<name_x, <<"n">>, name_y, name_z>>,
                size |-> <<4, 1, 4, 4>>, types |-> <<"F", "U", "F", "F">>,
                count |-> <<1, 2, 1, 1>>]
LayoutZXY == [fields |-> <<name_z, name_x, <<"i">>, name_y>>,
              size |-> <<4, 4, 2, 4>>, types |-> <<"F", "F", "I", "F">>,
              count |-> <<1, 1, 1, 1>>]
Layouts == {LayoutXYZ, LayoutRGB, LayoutMulti, LayoutZXY}

count_or_one(L, i) == IF L.count = <<>> THEN 1 ELSE L.count[i]
Stride(L) == Sum([i \in 1..Len(L.size) |-> L.size[i] * count_or_one(L, i)])

\* the directive lines of a layout
LayoutLines(L) ==
    << <<K_FIELDS>> \o L.fields,
       <<K_SIZE>> \o Numerals(L.size),
       <<K_TYPE>> \o [i \in 1..Len(L.types) |-> <<L.types[i]>>] >>
    \o (IF L.count = <<>> THEN <<>> ELSE << <<K_COUNT>> \o Numerals(L.count) >>)

\* how the header declares the point count
Declared == {<<"none">>, <<"WIDTH", MaxPoints>>}
            \cup {<<"POINTS", d>> : d \in 0..(MaxPoints + 1)}
DeclLines(decl) ==
    IF decl[1] = "POINTS" THEN << <<K_POINTS, Numeral(decl[2])>> >>
    ELSE IF decl[1] = "WIDTH"
         THEN << <<K_WIDTH, Numeral(decl[2])>>, <<K_HEIGHT, Numeral(1)>> >>
    ELSE <<>>

Preamble == << <<<<"#">>, <<".","P","C","D">>>>, <<K_VERSION, <<"0",".","7">>>> >>
DataLine(mode) == << <<K_DATA, mode>> >>
Header(L, decl, mode) == Preamble \o LayoutLines(L) \o DeclLines(decl) \o DataLine(mode)

\* coordinates
Flt_0 == F(0, 0, 0)
Flt_1 == F(0, 127, 0)
Flt_2 == F(0, 128, 0)
Flt_3 == F(0, 128, 4194304)
Flt_m4 == F(1, 129, 0)
Flt_half == F(0, 126, 0)
FinitePoints == {<<Flt_1, Flt_2, Flt_3>>, <<Flt_m4, Flt_0, Flt_half>>}
NonFinitePoints == {<<Flt_1, NaN, Inf(1)>>}
PointPool == FinitePoints \cup NonFinitePoints

RECURSIVE SeqsUpTo(_, _)
SeqsUpTo(S, n) ==
    IF n = 0 THEN {<<>>}
    ELSE LET shorter == SeqsUpTo(S, n - 1)
         IN  shorter \cup {Append(q, e) : q \in {r \in shorter : Len(r) = n - 1}, e \in S}

\* little-endian bytes of a binary32
F32Bytes(v) == << v.m % 256, (v.m \div 256) % 256,
                  (v.e % 2) * 128 + v.m \div 65536, v.s * 128 + v.e \div 2 >>

Fill(n) == [i \in 1..n |-> 65]

RECURSIVE Concat(_)
Concat(seqs) == IF seqs = <<>> THEN <<>> ELSE Head(seqs) \o Concat(Tail(seqs))

\* one record of the layout holding the point: a coordinate is the first
\* element of its field, filler bytes stand in every other place
EncodeRecord(L, p) ==
    Concat([i \in 1..Len(L.fields) |->
        LET pad == Fill(L.size[i] * (count_or_one(L, i) - 1))
        IN  IF lower(L.fields[i]) = name_x THEN F32Bytes(p[1]) \o pad
            ELSE IF lower(L.fields[i]) = name_y THEN F32Bytes(p[2]) \o pad
            ELSE IF lower(L.fields[i]) = name_z THEN F32Bytes(p[3]) \o pad
            ELSE Fill(L.size[i] * count_or_one(L, i))])
Encode(L, points) == Concat([k \in 1..Len(points) |-> EncodeRecord(L, points[k])])

NoStream == [fmt |-> "none", body |-> <<>>, clen |-> 0]
File(lines, rows, bytes, stream, avail) ==
    [lines |-> lines, rows |-> rows, bytes |-> bytes, stream |-> stream, avail |-> avail]

M_ascii == <<"a","s","c","i","i">>
M_binary == <<"b","i","n","a","r","y">>
M_binary_compressed == <<"b","i","n","a","r","y","_","c","o","m","p","r","e","s","s","e","d">>
M_other == <<"f","o","o">>

Clouds == SeqsUpTo(PointPool, MaxPoints)

\* DATA binary: the records of the points, cut after some number of bytes
Cuts(L, n) == {c \in {k * Stride(L) : k \in 0..n} \cup {1, Stride(L) - 1, Stride(L) + 1} :
                 c <= n * Stride(L)}
BinaryFile(L, decl, pts, cut) ==
    File(Header(L, decl, M_binary), <<>>, SubSeq(Encode(L, pts), 1, cut), NoStream, 0)

\* DATA ascii: rows of text
Tok_1 == <<"1">>
Tok_2 == <<"2">>
Tok_3 == <<"3">>
RowPool == { <<Tok_1, Tok_2, Tok_3>>,
             << <<"-","4">>, <<"0">>, <<"2",".","0">>, Tok_3 >>,
             <<Tok_1, Tok_2>>,
             << <<"#","c">>, Tok_1, Tok_2, Tok_3 >>,
             << Tok_1, <<"N","a","N">>, <<"-","i","n","f">>, Tok_3 >>,
             << Tok_1, Tok_2, <<"a","b","c">>, <<"z">> >> }
AsciiHeaders ==
    { Preamble \o DataLine(M_ascii),
      Header(LayoutXYZ, <<"POINTS", 2>>, M_ascii),
      Header(LayoutRGB, <<"none">>, M_ascii) }
AsciiFile(lines, rows) == File(lines, rows, <<>>, NoStream, 0)

\* DATA binary_compressed: an 8-byte block header and a compressed stream
U32Bytes(n) == <<n % 256, (n \div 256) % 256, 0, 0>>
Formats == {"zlib", "gzip", "lz4", "deflate", "junk"}
\* length of the stream a compressor of the format writes for the body
Compressed(fmt, body) ==
    [fmt |-> fmt, body |-> body,
     clen |-> Len(body) + (CASE fmt = "zlib" -> 11 [] fmt = "gzip" -> 23
                             [] fmt = "lz4" -> 15 [] OTHER -> 5)]
BlockFile(comp_size, usize, stream, avail) ==
    File(<<>>, <<>>, U32Bytes(comp_size) \o U32Bytes(usize), stream, avail)
WithHeader(file, lines) == [file EXCEPT !.lines = lines]


\* a well-formed block: the body may lack its last byte (trim), the declared
\* uncompressed size may be wrong (usize) and the header may give POINTS
BlockSizes(n, stride) ==
    { [trim |-> 0, usize |-> n, points |-> FALSE],
      [trim |-> 0, usize |-> 0, points |-> FALSE],
      [trim |-> 0, usize |-> n + stride, points |-> FALSE],
      [trim |-> 0, usize |-> n, points |-> TRUE],
      [trim |-> 0, usize |-> 0, points |-> TRUE],
      [trim |-> Min(1, n), usize |-> n, points |-> FALSE],
      [trim |-> Min(1, n), usize |-> n, points |-> TRUE] }
GoodBlock(L, pts, fmt, bs) ==
    LET body == Encode(L, pts)
        st == Compressed(fmt, SubSeq(body, 1, Len(body) - bs.trim))
    IN  WithHeader(BlockFile(st.clen, bs.usize, st, st.clen),
                   Header(L, IF bs.points THEN <<"POINTS", Len(pts)>> ELSE <<"none">>,
                          M_binary_compressed))

\* a block whose header or stream is cut short
BadBlock(L, pts, fmt, how) ==
    LET body == Encode(L, pts)
        st == Compressed(fmt, body)
        head == Header(L, <<"none">>, M_binary_compressed)
    IN  CASE how = "declares_more" ->
                WithHeader(BlockFile(st.clen + 1, Len(body), st, st.clen), head)
          [] how = "stream_cut" ->
                WithHeader(BlockFile(st.clen, Len(body), st, st.clen - 1), head)
          [] how = "declares_less" ->
                WithHeader(BlockFile(st.clen - 1, Len(body), st, st.clen), head)
          [] OTHER -> WithHeader(File(<<>>, <<>>, U32Bytes(st.clen), st, 0), head)
BadBlockKinds == {"declares_more", "stream_cut", "declares_less", "header_cut"}

\* a stream that ends before any DATA line
HeaderOnlyFile(L, decl) == File(Preamble \o LayoutLines(L) \o DeclLines(decl), <<>>, <<>>,
                                NoStream, 0)
EmptyFile == File(<<>>, <<>>, <<>>, NoStream, 0)

\* a DATA line that names no known mode
OtherModeFile(L, pts) ==
    File(Header(L, <<"POINTS", Len(pts)>>, M_other), <<>>, Encode(L, pts), NoStream, 0)

InitBinary ==
    \E L \in Layouts, decl \in Declared, pts \in Clouds :
        \E cut \in Cuts(L, Len(pts)) :
            Start([kind |-> "binary", L |-> L, decl |-> decl, pts |-> pts, cut |-> cut],
                  BinaryFile(L, decl, pts, cut), FALSE)

InitAscii ==
    \E lines \in AsciiHeaders, rows \in SeqsUpTo(RowPool, MaxRows) :
        Start([kind |-> "ascii"], AsciiFile(lines, rows), FALSE)

\* LZ4_AVAILABLE is read at line 198 only, on a compressed payload
InitCompressed ==
    \E pts \in Clouds, fmt \in Formats, lz4 \in BOOLEAN :
        LET L == LayoutRGB
        IN  \/ \E bs \in BlockSizes(Len(Encode(L, pts)), Stride(L)) :
                 Start([kind |-> "compressed", L |-> L, pts |-> pts, fmt |-> fmt,
                        how |-> "good", bs |-> bs],
                       GoodBlock(L, pts, fmt, bs), lz4)
            \/ \E how \in BadBlockKinds :
                 Start([kind |-> "compressed", L |-> L, pts |-> pts, fmt |-> fmt,
                        how |-> how],
                       BadBlock(L, pts, fmt, how), lz4)

\* a DATA line with no second token, or one in another case
BareDataFile(L, pts) ==
    File(Preamble \o LayoutLines(L) \o << <<K_DATA>> >>, <<>>, Encode(L, pts), NoStream, 0)
MixedCaseFile(L, pts) ==
    File(Preamble \o LayoutLines(L) \o << <<<<"d","A","t","a">>, <<"B","i","n","a","r","y">>>> >>,
         <<>>, Encode(L, pts), NoStream, 0)

InitOther ==
    \/ \E L \in Layouts, decl \in Declared :
         Start([kind |-> "header_only"], HeaderOnlyFile(L, decl), FALSE)
    \/ Start([kind |-> "header_only"], EmptyFile, FALSE)
    \/ \E L \in Layouts, pts \in Clouds :
         Start([kind |-> "other_mode"], OtherModeFile(L, pts), FALSE)
    \/ \E L \in Layouts, pts \in Clouds :
         \/ Start([kind |-> "bare_data"], BareDataFile(L, pts), FALSE)
         \/ Start([kind |-> "mixed_case"], MixedCaseFile(L, pts), FALSE)

\* Headers whose layout directives are missing, of unequal length, or name
\* sizes, types and fields outside the usual ones.  <<>> leaves the line out.
Odd(fields, size, types, count) ==
    [fields |-> fields, size |-> size, types |-> types, count |-> count]
name_a == <<"a">>
name_b == <<"b">>
name_c == <<"c">>
name_w == <<"w">>
XYZ == <<name_x, name_y, name_z>>
OddLayouts ==
    { Odd(XYZ, <<>>, <<"F","F","F">>, <<>>),
      Odd(XYZ, <<4,4,4>>, <<>>, <<>>),
      Odd(<<>>, <<4,4,4>>, <<"F","F","F">>, <<>>),
      Odd(XYZ, <<4,4>>, <<"F","F","F">>, <<>>),
      Odd(XYZ, <<4,4,4,4>>, <<"F","F","F">>, <<>>),
      Odd(XYZ, <<4,4,4>>, <<"F","F">>, <<>>),
      Odd(XYZ, <<4,4,4>>, <<"F","F","F","F">>, <<>>),
      Odd(XYZ, <<4,4,4>>, <<"F","F","F">>, <<1,1>>),
      Odd(XYZ, <<4,4,4>>, <<"F","F","F">>, <<1,1,1,1>>),
      Odd(XYZ, <<2,2,2>>, <<"F","F","F">>, <<>>),
      Odd(XYZ, <<8,8,8>>, <<"F","F","F">>, <<>>),
      Odd(XYZ \o <<name_w>>, <<4,4,4,3>>, <<"F","F","F","I">>, <<>>),
      Odd(XYZ \o <<name_w>>, <<4,4,4,4>>, <<"F","F","F","Q">>, <<>>),
      Odd(XYZ, <<4,4,4>>, <<"I","U","F">>, <<>>),
      Odd(<<name_a, name_b>>, <<4,4>>, <<"F","F">>, <<>>),
      Odd(<<name_a, name_b, name_c>>, <<4,4,4>>, <<"F","F","F">>, <<>>),
      Odd(<<name_y, name_x, name_w>>, <<4,4,4>>, <<"F","F","F">>, <<>>),
      Odd(XYZ, <<0,0,0>>, <<"F","F","F">>, <<>>),
      Odd(XYZ, <<4,4,4>>, <<"F","F","F">>, <<0,0,0>>) }

OddLines(O) ==
    (IF O.fields = <<>> THEN <<>> ELSE << <<K_FIELDS>> \o O.fields >>)
    \o (IF O.size = <<>> THEN <<>> ELSE << <<K_SIZE>> \o Numerals(O.size) >>)
    \o (IF O.types = <<>> THEN <<>>
        ELSE << <<K_TYPE>> \o [i \in 1..Len(O.types) |-> <<O.types[i]>>] >>)
    \o (IF O.count = <<>> THEN <<>> ELSE << <<K_COUNT>> \o Numerals(O.count) >>)
OddHeader(O, decl, mode) == Preamble \o OddLines(O) \o DeclLines(decl) \o DataLine(mode)

\* the payload of such a file: n bytes
OddSizes == {0, 6, 12, 16, 24}
OddDeclared == {<<"none">>, <<"POINTS", 1>>, <<"POINTS", MaxPoints>>}
OddFile(O, decl, n) == File(OddHeader(O, decl, M_binary), <<>>, Fill(n), NoStream, 0)

InitOdd ==
    \E O \in OddLayouts, decl \in OddDeclared, n \in OddSizes :
        Start([kind |-> "odd", L |-> O, decl |-> decl, n |-> n], OddFile(O, decl, n), FALSE)

\* Headers that declare the point count in unusual ways
Tok_abc == <<"a","b","c">>
CountLines ==
    { << <<K_POINTS, Tok_abc>>, <<K_WIDTH, Numeral(1)>>, <<K_HEIGHT, Numeral(1)>> >>,
      << <<K_POINTS>>, <<K_WIDTH, Numeral(1)>>, <<K_HEIGHT, Numeral(1)>> >>,
      << <<K_POINTS, Numeral(1)>>, <<K_WIDTH, Numeral(2)>>, <<K_HEIGHT, Numeral(1)>> >>,
      << <<K_POINTS, Tok_abc>> >>,
      << <<K_WIDTH, Numeral(2)>> >>,
      << <<K_WIDTH, Numeral(0)>>, <<K_HEIGHT, Numeral(2)>> >>,
      << <<K_WIDTH, Tok_abc>>, <<K_HEIGHT, Numeral(1)>> >>,
      << <<K_HEIGHT, Numeral(1)>>, <<K_WIDTH, Numeral(1)>> >> }
CountFile(L, count_lines, pts) ==
    File(Preamble \o LayoutLines(L) \o count_lines \o DataLine(M_binary), <<>>,
         Encode(L, pts), NoStream, 0)

InitCount ==
    \E count_lines \in CountLines, pts \in Clouds :
        Start([kind |-> "count", L |-> LayoutXYZ, pts |-> pts],
              CountFile(LayoutXYZ, count_lines, pts), FALSE)

\* DATA binary_compressed under such a header: a block of n bytes, whole or
\* with its stream cut by a byte
OddBlock(O, fmt, how, n) ==
    LET st == Compressed(fmt, Fill(n))
    IN  WithHeader(BlockFile(st.clen, n, st, IF how = "stream_cut" THEN st.clen - 1 ELSE st.clen),
                   OddHeader(O, <<"none">>, M_binary_compressed))

InitOddBlock ==
    \E O \in OddLayouts, fmt \in {"gzip", "junk"}, how \in {"good", "stream_cut"} :
        Start([kind |-> "odd_block", L |-> O, fmt |-> fmt, how |-> how],
              OddBlock(O, fmt, how, 24), FALSE)

\* DATA ascii under headers whose FIELDS lack a coordinate name, or give the
\* names in capitals
FieldsLines ==
    { << <<K_FIELDS, name_y, name_x, name_w>> >>,
      << <<K_FIELDS, name_a, name_b>> >>,
      << <<K_FIELDS, name_w, <<"Z">>, <<"Y">>, <<"X">>>> >> }

InitAsciiFields ==
    \E fields_lines \in FieldsLines, rows \in SeqsUpTo(RowPool, 2) :
        Start([kind |-> "ascii_fields"],
              AsciiFile(Preamble \o fields_lines \o DataLine(M_ascii), rows), FALSE)

\* a whole block of more records than the header's POINTS declares
OverlongBlock(L, pts, fmt, declared) ==
    WithHeader(GoodBlock(L, pts, fmt,
                         [trim |-> 0, usize |-> Len(Encode(L, pts)), points |-> TRUE]),
               Header(L, <<"POINTS", declared>>, M_binary_compressed))

InitOverlong ==
    \E L \in {LayoutXYZ, LayoutRGB}, pts \in Clouds, fmt \in {"zlib", "gzip"} :
        \E declared \in 0..(Len(pts) - 1) :
            Start([kind |-> "overlong", L |-> L, pts |-> pts, declared |-> declared],
                  OverlongBlock(L, pts, fmt, declared), FALSE)

\* Layouts with a field of several elements: x itself, or a field of 2-byte
\* floats standing before y and z
LayoutXWide == [fields |-> <<name_x, name_y, name_z>>,
                size |-> <<4, 4, 4>>, types |-> <<"F", "F", "F">>, count |-> <<2, 1, 1>>]
LayoutHalfN == [fields |-> <<name_x, <<"n">>, name_y, name_z>>,
                size |-> <<4, 2, 4, 4>>, types |-> <<"F", "F", "F", "F">>,
                count |-> <<1, 3, 1, 1>>]
MultiLayouts == {LayoutXWide, LayoutHalfN, LayoutMulti}

InitMulti ==
    \E L \in MultiLayouts, pts \in Clouds :
        \E decl \in {<<"none">>, <<"POINTS", Len(pts)>>} :
            Start([kind |-> "multi", L |-> L, decl |-> decl, pts |-> pts],
                  BinaryFile(L, decl, pts, Len(Encode(L, pts))), FALSE)

Init ==
    InitBinary \/ InitAscii \/ InitCompressed \/ InitOther \/ InitOdd \/ InitCount
        \/ InitOddBlock \/ InitAsciiFields \/ InitOverlong \/ InitMulti

Spec == Init /\ [][Next]_vars

Done == pc = "done"

\* the steps compute what the call computes
StepsAgree == Done => result = ReadPcd(fh, LZ4_AVAILABLE)

----------------------------------------------------------------------------
(* ASCII rows *)

\* a row with fewer tokens than the columns in use need
TooFewTokens(row, cols) == Len(row) <= Max(cols[1], Max(cols[2], cols[3]))

\* a coordinate row: enough tokens, not a comment, three numbers in the columns
WellFormedRow(row, cols) ==
    /\ ~TooFewTokens(row, cols)
    /\ Head(Head(row)) # "#"
    /\ \A c \in 1..3 : float_ok(row[cols[c] + 1])

RECURSIVE WellFormedPoints(_, _)
WellFormedPoints(rows, cols) ==
    IF rows = <<>> THEN <<>>
    ELSE (IF WellFormedRow(Head(rows), cols)
          THEN << <<float(Head(rows)[cols[1] + 1]), float(Head(rows)[cols[2] + 1]),
                    float(Head(rows)[cols[3] + 1])>> >>
          ELSE <<>>) \o WellFormedPoints(Tail(rows), cols)

\* C1: in ASCII mode, when every row is either a well-formed coordinate row or
\* a row with too few tokens, and at least one is well-formed, the decode
\* succeeds with exactly the points of the well-formed rows, in row order.
C1_AsciiSkipsShortRows ==
    (Done /\ data_type = kw_ascii) =>
        LET cols == ascii_columns(hdr.fields)
        IN  ( /\ \A i \in 1..Len(fh.rows) :
                    ~(~TooFewTokens(fh.rows[i], cols) /\ ~WellFormedRow(fh.rows[i], cols))
              /\ \E i \in 1..Len(fh.rows) : WellFormedRow(fh.rows[i], cols) )
            => result = Ok(WellFormedPoints(fh.rows, cols))

\* a short row stands between two well-formed rows, and both points come back
C1_Witness ==
    /\ Done
    /\ data_type = kw_ascii
    /\ Len(fh.rows) = 3
    /\ LET cols == ascii_columns(hdr.fields)
       IN  /\ WellFormedRow(fh.rows[1], cols)
           /\ TooFewTokens(fh.rows[2], cols)
           /\ WellFormedRow(fh.rows[3], cols)
           /\ fh.rows[1] # fh.rows[3]
    /\ result.status = "ok"
    /\ Len(result.points) = 2

----------------------------------------------------------------------------
(* Binary payloads *)

AllFinite(points) == \A i \in 1..Len(points) : point_finite(points[i])

\* the header gives no count, or the number of records written
HonestCount(decl, n) == IF decl[1] = "none" THEN TRUE ELSE decl[2] = n

\* C2: the binary file written for a sequence of finite points, in any layout
\* that holds x, y, z as 4-byte floats, decodes to those points in that order.
C2_BinaryRoundTrip ==
    ( /\ Done
      /\ written.kind = "binary"
      /\ written.cut = Len(Encode(written.L, written.pts))
      /\ HonestCount(written.decl, Len(written.pts))
      /\ AllFinite(written.pts) )
    => result = Ok(written.pts)

\* two different points, in a layout with a two-element field between x and y
C2_Witness ==
    /\ Done
    /\ written.kind = "binary"
    /\ written.L = LayoutMulti
    /\ written.cut = Len(Encode(written.L, written.pts))
    /\ Len(written.pts) = 2
    /\ written.pts[1] # written.pts[2]
    /\ AllFinite(written.pts)
    /\ result = Ok(written.pts)


FiniteOnly(points) == SelectSeq(points, point_finite)

\* the whole records left in the payload of a binary file
RecordsKept(w) == w.cut \div Stride(w.L)

\* C3: in binary mode, when the header declares more points than the payload
\* holds and the payload is cut to k whole records, 1 <= k < declared, the
\* decode succeeds with the first k points (those of them that are finite).
C3_TruncatedPayloadRecounted ==
    ( /\ Done
      /\ written.kind = "binary"
      /\ written.decl[1] # "none"
      /\ written.cut % Stride(written.L) = 0
      /\ RecordsKept(written) >= 1
      /\ RecordsKept(written) < written.decl[2] )
    => /\ result = Ok(FiniteOnly(SubSeq(written.pts, 1, RecordsKept(written))))
       /\ layout.num_points = RecordsKept(written)

\* two records were written and three declared; the payload keeps one record
C3_Witness ==
    /\ Done
    /\ written.kind = "binary"
    /\ written.decl = <<"POINTS", 3>>
    /\ Len(written.pts) = 2
    /\ written.cut = Stride(written.L)
    /\ AllFinite(written.pts)
    /\ result = Ok(<<written.pts[1]>>)


\* the formats a decompressor of the chain accepts
SupportedFormats(lz4_available) ==
    {"zlib", "gzip", "deflate"} \cup (IF lz4_available THEN {"lz4"} ELSE {})

\* the uncompressed payload of a file written in a binary mode, when the
\* decoder can get at it
PayloadBytes(w) ==
    IF w.kind = "binary" THEN w.cut ELSE Len(Encode(w.L, w.pts)) - w.bs.trim
PayloadReadable(w, lz4_available) ==
    IF w.kind = "binary" THEN TRUE
    ELSE IF w.kind = "compressed"
         THEN w.how = "good" /\ w.fmt \in SupportedFormats(lz4_available)
    ELSE FALSE

\* C4: in the binary modes, a payload shorter than one stride (an empty one
\* included) ends the decode in NoBinaryData, whether the point count was
\* declared or has to be inferred.
C4_ShortPayloadIsNoBinaryData ==
    ( /\ Done
      /\ PayloadReadable(written, LZ4_AVAILABLE)
      /\ PayloadBytes(written) < Stride(written.L) )
    => result = Err(NoBinaryData)

----------------------------------------------------------------------------
(* Compressed blocks *)

\* C5: in binary_compressed mode, when the 8-byte block header declares a
\* compressed_size larger than the bytes left in the stream, the decode fails
\* with TruncatedPayload and no decompressor is tried.
C5_ShortBlockIsTruncatedPayload ==
    ( /\ Done
      /\ is_compressed(data_type)
      /\ Len(fh.bytes) >= 8
      /\ U32LE(SubSeq(fh.bytes, 1, 4)) > fh.avail )
    => (result = Err(TruncatedPayload) /\ codecs = <<>>)

\* the file lost the last byte of a gzip stream
C5_Witness ==
    /\ Done
    /\ written.kind = "compressed"
    /\ written.how = "stream_cut"
    /\ written.fmt = "gzip"
    /\ U32LE(SubSeq(fh.bytes, 1, 4)) = fh.avail + 1
    /\ result = Err(TruncatedPayload)

\* C6: for the same header and the same uncompressed bytes, the outcome of
\* the decode is the same whichever supported codec wrote the block.
C6_CodecTransparency ==
    ( /\ Done
      /\ written.kind = "compressed"
      /\ written.how = "good"
      /\ written.fmt \in SupportedFormats(LZ4_AVAILABLE) )
    => \A other \in SupportedFormats(LZ4_AVAILABLE) :
          ReadPcd(GoodBlock(written.L, written.pts, other, written.bs), LZ4_AVAILABLE)
              = result

\* a raw-deflate block, the last codec of the chain, decodes to its two points
C6_Witness ==
    /\ Done
    /\ written.kind = "compressed"
    /\ written.how = "good"
    /\ written.fmt = "deflate"
    /\ LZ4_AVAILABLE
    /\ codecs = <<"zlib", "gzip", "lz4", "deflate">>
    /\ Len(written.pts) = 2
    /\ result = Ok(written.pts)

----------------------------------------------------------------------------
(* Headers with their directives in any order *)

Rotate(seq, r) == SubSeq(seq, r + 1, Len(seq)) \o SubSeq(seq, 1, r)

\* the seven directives, each on a line of its own
HeaderShapes ==
    { [L |-> LayoutMulti, decl |-> <<>>],
      [L |-> LayoutMulti, decl |-> DeclLines(<<"POINTS", 2>>)],
      [L |-> LayoutMulti, decl |-> DeclLines(<<"WIDTH", 2>>)],
      [L |-> LayoutRGB, decl |-> DeclLines(<<"POINTS", 1>>)],
      [L |-> LayoutRGB, decl |-> DeclLines(<<"WIDTH", 2>>)],
      [L |-> LayoutRGB, decl |-> DeclLines(<<"POINTS", 1>>) \o DeclLines(<<"WIDTH", 2>>)] }

TwoPoints == << <<Flt_1, Flt_2, Flt_3>>, <<Flt_m4, Flt_0, Flt_half>> >>
TwoRows == << <<Tok_1, Tok_2, Tok_3, Tok_1>>, <<Tok_3, Tok_2, Tok_1, Tok_2>> >>

\* a file of two points in the given mode, the directives rotated by r lines
RotatedFile(shape, r, mode) ==
    LET lines == Preamble \o Rotate(LayoutLines(shape.L) \o shape.decl, r)
                 \o (IF mode = <<>> THEN <<>> ELSE DataLine(mode))
        body == Encode(shape.L, TwoPoints)
        st == Compressed("gzip", body)
    IN  IF mode = M_ascii THEN File(lines, TwoRows, <<>>, NoStream, 0)
        ELSE IF mode = M_binary_compressed
             THEN WithHeader(BlockFile(st.clen, Len(body), st, st.clen), lines)
        ELSE IF mode = <<>> THEN File(lines, <<>>, <<>>, NoStream, 0)
        ELSE File(lines, <<>>, body, NoStream, 0)

InitHeader ==
    \E shape \in HeaderShapes,
       mode \in {M_ascii, M_binary, M_binary_compressed, M_other, <<>>} :
        \E r \in 0..(Len(LayoutLines(shape.L) \o shape.decl) - 1) :
            Start([kind |-> "header", L |-> shape.L, r |-> r],
                  RotatedFile(shape, r, mode), FALSE)

SpecHeader == InitHeader /\ [][Next]_vars

Directives == {kw_field, kw_size, kw_type, kw_count, kw_width, kw_height, kw_points}
IsDirective(ln) == \E k \in Directives : line_startswith(ln, k)

\* positions of the directive lines that precede the DATA line
RECURSIVE DirectivePositions(_, _)
DirectivePositions(lines, i) ==
    IF i > Len(lines) THEN <<>>
    ELSE IF line_startswith(lines[i], kw_data) THEN <<>>
    ELSE (IF IsDirective(lines[i]) THEN <<i>> ELSE <<>>) \o DirectivePositions(lines, i + 1)

\* the file with its directive lines permuted by p among their positions
Permuted(file, p) ==
    LET at == DirectivePositions(file.lines, 1)
    IN  [file EXCEPT !.lines =
            [i \in 1..Len(file.lines) |->
                IF \E k \in 1..Len(at) : at[k] = i
                THEN file.lines[at[p[CHOOSE k \in 1..Len(at) : at[k] = i]]]
                ELSE file.lines[i]]]

\* C7: whatever the order of the directive lines before the DATA line, the
\* fields, sizes, types, counts and point count resolved are the same, and so
\* is the outcome of the decode.
C7_HeaderOrderIndependent ==
    Done =>
        \A p \in Permutations(1..Len(DirectivePositions(fh.lines, 1))) :
            /\ ResolveHeader(HeaderLines(Permuted(fh, p).lines)) = hdr
            /\ ReadPcd(Permuted(fh, p), LZ4_AVAILABLE) = result

\* TYPE, COUNT and POINTS stand before FIELDS and SIZE, and both points decode
C7_Witness ==
    /\ Done
    /\ written.kind = "header"
    /\ written.L = LayoutMulti
    /\ written.r = 2
    /\ is_binary(data_type)
    /\ hdr.num_points = Some(2)
    /\ result = Ok(TwoPoints)

----------------------------------------------------------------------------
(* Non-finite rows, empty clouds, headers without a DATA line *)

\* the rows the payload decoder produced, before any filter
DecodedRows ==
    IF data_type = kw_ascii THEN ascii_pts(fh.rows, ascii_columns(hdr.fields))
    ELSE [k \in 1..structured.n |->
            record_point(structured, k - 1, binary_columns(hdr.fields))]

\* C8: in every data mode the points returned are exactly the decoded rows
\* whose x, y and z are all finite, in row order.
C8_OnlyFiniteRowsReturned ==
    (Done /\ result.status = "ok") => result.points = FiniteOnly(DecodedRows)

\* C9: a decode that keeps no row ends in EmptyPointCloud in every data mode;
\* no successful result holds an empty point collection.
C9_EmptyCloudIsError ==
    (Done /\ result.status = "ok") => result.points # <<>>

\* the error the taxonomy names for a stream that ends before a DATA line; no
\* statement of _read_pcd raises it
TruncatedHeader == "TruncatedHeader"

\* C10: when the stream ends before any DATA line, the decode fails with
\* TruncatedHeader and no directive is resolved.
C10_NoDataLineIsTruncatedHeader ==
    (Done /\ DataLineAt(fh.lines) = 0) =>
        (result = Err(TruncatedHeader) /\ hdr = NoHeader)

----------------------------------------------------------------------------
(* The data mode *)

KnownModes == {kw_ascii, kw_binary, kw_binary_compressed}

\* the DATA line has no second token, or one that names no known mode
ModeAbsentOrUnknown(lines) ==
    /\ DataLineAt(lines) # 0
    /\ LET ln == lines[DataLineAt(lines)]
       IN  Len(ln) < 2 \/ lower(ln[2]) \notin KnownModes

\* the same file with a DATA line that names binary
AsBinary(file) ==
    [file EXCEPT !.lines = [i \in 1..Len(file.lines) |->
        IF i = DataLineAt(file.lines) THEN <<K_DATA, M_binary>> ELSE file.lines[i]]]

\* C11: when the second token of the DATA line is absent or is none of ascii,
\* binary, binary_compressed (compared without regard to case), the decode
\* goes on in binary mode: its outcome is that of the same file with DATA binary.
C11_UnknownModeIsBinary ==
    (Done /\ ModeAbsentOrUnknown(fh.lines)) => result = ReadPcd(AsBinary(fh), LZ4_AVAILABLE)

----------------------------------------------------------------------------
(* The record layout *)

BlockErrors == {InvalidBlockHeader, TruncatedPayload, DecompressionFailed}

\* the call got past the compressed block, if there was one
BlockPassed == ~(result.status = "error" /\ result.kind \in BlockErrors)

\* FIELDS, SIZE or TYPE is missing, or the sequences differ in length
LayoutMismatch(h) ==
    \/ ~Truthy(h.fields)
    \/ ~Truthy(h.size)
    \/ ~Truthy(h.types)
    \/ Len(h.size) # Len(h.fields)
    \/ Len(h.types) # Len(h.fields)
    \/ (Truthy(h.count) /\ Len(h.count) # Len(h.fields))

\* C12: in the binary modes a header in which FIELDS, SIZE or TYPE is missing,
\* or in which fields, sizes, types (and counts, when given) are not of one
\* length, ends the decode in IncompleteLayout; ASCII mode never does.
C12_MismatchedLayoutIsIncomplete ==
    /\ (Done /\ is_binary(data_type) /\ BlockPassed /\ LayoutMismatch(hdr))
          => result = Err(IncompleteLayout)
    /\ (Done /\ data_type = kw_ascii)
          => result # Err(IncompleteLayout)

\* the (type, size) pairs of the type mapping and the numpy base of each
SupportedPair(t, sz) ==
    \/ (t = <<"F">> /\ sz \in {4, 8})
    \/ (t \in {<<"I">>, <<"U">>} /\ sz \in IntSizes)
MappedBase(t, sz) ==
    [kind |-> IF t = <<"F">> THEN "f" ELSE IF t = <<"I">> THEN "i" ELSE "u", size |-> sz]

\* C13: (F,4) and (F,8) are floats of 32 and 64 bits, (I,s) and (U,s) with s
\* in {1,2,4,8} signed and unsigned integers of s bytes; a layout holding any
\* other (type, size) pair ends the decode in UnsupportedFieldType once the
\* payload has been read.
C13_UnsupportedPairIsError ==
    /\ (Done /\ structured # <<>>) =>
          \A i \in 1..Len(structured.dtype) :
              SupportedPair(layout.types_l[i], layout.sizes[i])
                  => structured.dtype[i].base = MappedBase(layout.types_l[i], layout.sizes[i])
    /\ (Done /\ is_binary(data_type) /\ layout # <<>> /\ ~LayoutMismatch(hdr)
          /\ \E i \in 1..Len(layout.sizes) :
                ~SupportedPair(layout.types_l[i], layout.sizes[i]))
          => result = Err(UnsupportedFieldType)

----------------------------------------------------------------------------
(* Loads into a window that may already show a geometry *)

PriorPoints == << <<Flt_3, Flt_3, Flt_3>> >>

\* the window before the load: as built, with or without a plotter, or
\* holding the geometry of an earlier load
ViewerStates ==
    { Constructed(TRUE), Constructed(FALSE), Showing(PriorPoints),
      [Showing(PriorPoints) EXCEPT !.plotter = None] }

ViewerFiles ==
    { BinaryFile(LayoutXYZ, decl, pts, Len(Encode(LayoutXYZ, pts))) :
          decl \in Declared, pts \in Clouds }
    \cup { AsciiFile(lines, rows) : lines \in AsciiHeaders, rows \in SeqsUpTo(RowPool, 1) }
    \cup { GoodBlock(LayoutRGB, pts, fmt, [trim |-> 0, usize |-> 0, points |-> FALSE]) :
              pts \in Clouds, fmt \in {"gzip", "junk"} }
    \cup { HeaderOnlyFile(LayoutXYZ, <<"none">>), OtherModeFile(LayoutXYZ, <<>>) }

InitViewer ==
    \E v \in ViewerStates, file \in ViewerFiles :
        /\ StartLocals([kind |-> "viewer"], file, FALSE)
        /\ Viewer(v)
        /\ second = NoCall
        /\ arduino = NoReader

SpecViewer == InitViewer /\ [][Next]_vars

\* C14: the stored mesh, the scene shown and the info label change only in the
\* step that ends a load whose decode succeeded with at least one point; a
\* load whose decode raised, or gave an empty geometry, leaves all three as
\* they were.
C14_FailedLoadLeavesViewer ==
    [][ (<<mesh, plotter, info_label>>' # <<mesh, plotter, info_label>>)
            => (pc = "done" /\ result.status = "ok" /\ result.points # <<>>) ]_vars

\* a load that decoded no point has returned, and the window still holds and
\* shows the earlier geometry
C14_Witness ==
    /\ pc = "returned"
    /\ result = Ok(<<>>)
    /\ mesh = Some(PriorPoints)
    /\ plotter = Some(PriorPoints)
    /\ info_label = Loaded(1)

----------------------------------------------------------------------------
(* Two calls of _read_pcd at once *)

\* Every name _read_pcd assigns is a local of the call (lines 105-313); the
\* only name it reads from outside is the module flag LZ4_AVAILABLE.  The
\* locals of a second call are held in one record, and the call advances by
\* the same statements.
Locals(file) ==
    [fh |-> file, pc |-> "start", header_lines |-> <<>>, data_type |-> Unbound,
     hdr |-> NoHeader, raw |-> None, uncomp_size |-> None, remaining |-> 0,
     layout |-> <<>>, structured |-> <<>>, codecs |-> <<>>, result |-> NoResult]

\* the return or raise that ends a call
finish(s, res) == [s EXCEPT !.result = res, !.pc = "done"]

\* lines 106-119
header_step(s) ==
    [s EXCEPT !.header_lines = HeaderLines(s.fh.lines),
              !.data_type = DataType(s.fh.lines),
              !.remaining = Len(s.fh.bytes),
              !.pc = "header"]

\* header_lines kept on the window and read from there
resolve_step_shared(s) ==
    [s EXCEPT !.hdr = ResolveHeader(header_lines), !.pc = "resolved"]

\* lines 121-147
resolve_step(s) ==
    [s EXCEPT !.hdr = ResolveHeader(s.header_lines), !.pc = "resolved"]

\* lines 149-210
branch_step(s, lz4_available) ==
    LET blk == ReadCompressed(s.fh, lz4_available)
    IN  IF s.data_type = Unbound THEN finish(s, Err(UnboundLocalError))
        ELSE IF s.data_type = kw_ascii THEN finish(s, DecodeAscii(s.fh.rows, s.hdr.fields))
        ELSE IF ~is_compressed(s.data_type)
             THEN [s EXCEPT !.raw = None, !.uncomp_size = None, !.pc = "payload"]
        ELSE [s EXCEPT !.raw = blk.raw,
                       !.uncomp_size = blk.uncomp_size,
                       !.remaining = blk.remaining,
                       !.codecs = blk.tried,
                       !.result = IF blk.error # None THEN Err(blk.error[1]) ELSE s.result,
                       !.pc = IF blk.error # None THEN "done" ELSE "payload"]

\* lines 212-237, and line 316
read_step(s) ==
    LET rb == ReadBinary(s.hdr, s.raw, s.uncomp_size, s.remaining, s.fh.bytes)
    IN  IF ~is_binary(s.data_type) THEN finish(s, Err(UnsupportedDataType))
        ELSE [s EXCEPT !.raw = rb.raw,
                       !.layout = rb.layout,
                       !.result = IF rb.error # None THEN Err(rb.error[1]) ELSE s.result,
                       !.pc = IF rb.error # None THEN "done" ELSE "read"]

\* lines 239-257
records_step(s) ==
    LET recs == BuildRecords(s.hdr.fields, s.layout, s.raw[1])
    IN  [s EXCEPT !.structured = recs.structured,
                  !.result = IF recs.error # None THEN Err(recs.error[1]) ELSE s.result,
                  !.pc = IF recs.error # None THEN "done" ELSE "records"]

\* lines 258-314
extract_step(s) == finish(s, ExtractPoints(s.hdr.fields, s.structured))

\* the next statement group of a call that has not ended
call_step(s, lz4_available) ==
    CASE s.pc = "start" -> header_step(s)
      [] s.pc = "header" -> resolve_step(s)
      [] s.pc = "resolved" -> branch_step(s, lz4_available)
      [] s.pc = "payload" -> read_step(s)
      [] s.pc = "read" -> records_step(s)
      [] s.pc = "records" -> extract_step(s)

\* the locals of the first call, as a record
FirstLocals ==
    [fh |-> fh, pc |-> pc, header_lines |-> header_lines, data_type |-> data_type,
     hdr |-> hdr, raw |-> raw, uncomp_size |-> uncomp_size, remaining |-> remaining,
     layout |-> layout, structured |-> structured, codecs |-> codecs, result |-> result]

\* a step of the second call
SecondCall ==
    /\ second.pc \in {"start", "header", "resolved", "payload", "read", "records"}
    /\ second' = call_step(second, LZ4_AVAILABLE)
    /\ UNCHANGED <<written, fh, LZ4_AVAILABLE, pc, header_lines, data_type, hdr, raw,
                   uncomp_size, remaining, layout, structured, codecs, result, mesh, plotter,
                   info_label, camera, arduino>>

NextTwoCalls ==
    \/ Next
    \/ SecondCall

\* the steps of the first call are those of call_step
StepsMatch ==
    [][pc' # "returned" => FirstLocals' = call_step(FirstLocals, LZ4_AVAILABLE)]_vars

OnePoint == << <<Flt_m4, Flt_0, Flt_half>> >>
WholeBlock(n) == [trim |-> 0, usize |-> n, points |-> FALSE]

TwoCallFiles ==
    { BinaryFile(LayoutXYZ, <<"none">>, TwoPoints, Len(Encode(LayoutXYZ, TwoPoints))),
      BinaryFile(LayoutMulti, <<"POINTS", MaxPoints + 1>>, TwoPoints, Stride(LayoutMulti)),
      AsciiFile(Header(LayoutXYZ, <<"POINTS", 2>>, M_ascii), TwoRows),
      AsciiFile(Preamble \o DataLine(M_ascii), <<>>),
      GoodBlock(LayoutRGB, TwoPoints, "gzip", WholeBlock(Len(Encode(LayoutRGB, TwoPoints)))),
      GoodBlock(LayoutRGB, OnePoint, "lz4", WholeBlock(Len(Encode(LayoutRGB, OnePoint)))),
      BadBlock(LayoutRGB, TwoPoints, "zlib", "stream_cut"),
      HeaderOnlyFile(LayoutXYZ, <<"none">>),
      OtherModeFile(LayoutXYZ, TwoPoints),
      OddFile(Odd(XYZ \o <<name_w>>, <<4,4,4,3>>, <<"F","F","F","I">>, <<>>), <<"none">>, 12) }

InitTwoCalls ==
    \E first \in TwoCallFiles, file \in TwoCallFiles, lz4 \in BOOLEAN :
        /\ StartLocals([kind |-> "two_calls"], first, lz4)
        /\ Viewer(Constructed(TRUE))
        /\ second = Locals(file)
        /\ arduino = NoReader

SpecTwoCalls == InitTwoCalls /\ [][NextTwoCalls]_vars

\* C15: of two calls on their own files, run in any interleaving of their
\* steps, each ends with the outcome it has when run alone; a step of one call
\* leaves the locals of the other as they are.
C15_Reentrant ==
    /\ [](Done => result = ReadPcd(fh, LZ4_AVAILABLE))
    /\ [](second.pc = "done" => second.result = ReadPcd(second.fh, LZ4_AVAILABLE))
    /\ [][ /\ (second' # second => FirstLocals' = FirstLocals)
           /\ (FirstLocals' # FirstLocals => second' = second) ]_vars

\* both calls have ended, one with the two points of its ASCII file and the
\* other with the error of its cut block
C15_Witness ==
    /\ Done
    /\ second.pc = "done"
    /\ data_type = kw_ascii
    /\ result.status = "ok"
    /\ Len(result.points) = 2
    /\ second.result = Err(TruncatedPayload)

----------------------------------------------------------------------------
(* The point count *)

\* the first token of a directive as an integer, None when the directive is
\* absent, has no token, or the token is no integer
IntOf(tok) == IF Truthy(tok) /\ int_ok(tok[1]) THEN Some(int(tok[1])) ELSE None

\* the resolution order: POINTS when it parses, else WIDTH x HEIGHT when both
\* parse and are not zero, else unresolved
ResolvedCount(lines) ==
    LET p == IntOf(_get(lines, kw_points))
        w == IntOf(_get(lines, kw_width))
        h == IntOf(_get(lines, kw_height))
    IN  IF p # None THEN p
        ELSE IF w # None /\ h # None /\ w[1] # 0 /\ h[1] # 0 THEN Some(w[1] * h[1])
        ELSE None

\* C16: the point count is the POINTS value when POINTS is present and is an
\* integer, otherwise WIDTH x HEIGHT when both are present and not zero,
\* otherwise unresolved; a POINTS value that is no integer falls through to
\* WIDTH x HEIGHT.
C16_PointCountResolution ==
    (pc \notin {"start", "header"}) => hdr.num_points = ResolvedCount(header_lines)

----------------------------------------------------------------------------
(* The order of the stages *)

\* what the layout resolver has to refuse, from the header alone: a missing
\* FIELDS, SIZE or TYPE, or a type letter other than F, I, U
LayoutFault(h) ==
    IF ~(Truthy(h.fields) /\ Truthy(h.size) /\ Truthy(h.types)) THEN Some(IncompleteLayout)
    ELSE IF \E i \in 1..Len(h.types) : upper(h.types[i]) \notin {<<"F">>, <<"I">>, <<"U">>}
         THEN Some(UnsupportedFieldType)
    ELSE None

\* C17: in the binary modes the layout is resolved before any payload byte is
\* read or decompressed: a header with a layout fault ends the decode in the
\* layout error, with no codec tried and no payload buffer filled, whatever
\* the state of the payload.
C17_LayoutBeforePayload ==
    (Done /\ is_binary(data_type) /\ LayoutFault(hdr) # None)
        => /\ result = Err(LayoutFault(hdr)[1])
           /\ codecs = <<>>
           /\ raw = None

----------------------------------------------------------------------------
(* The decompression chain *)

\* the order of the chain in a build with or without the frame codec
ChainOrder(lz4_available) ==
    <<"zlib", "gzip">> \o (IF lz4_available THEN <<"lz4">> ELSE <<>>) \o <<"deflate">>

\* what a codec makes of the buffer: its output, None when it rejects it
RunCodec(codec, comp) ==
    CASE codec = "zlib" -> zlib_decompress(comp)
      [] codec = "gzip" -> gzip_decompress(comp)
      [] codec = "lz4" -> lz4frame_decompress(comp)
      [] codec = "deflate" -> raw_inflate(comp)

\* the compressed buffer the block header of the file announces
BlockOf(file) ==
    [fmt |-> file.stream.fmt, body |-> file.stream.body, clen |-> file.stream.clen,
     got |-> Min(U32LE(SubSeq(file.bytes, 1, 4)), file.avail)]

\* the call is past the read of a whole compressed block
BlockRead ==
    /\ pc \in {"payload", "read", "records", "done", "returned"}
    /\ is_compressed(data_type)
    /\ Len(fh.bytes) >= 8
    /\ U32LE(SubSeq(fh.bytes, 1, 4)) <= fh.avail

\* C18: the codecs are tried in the order zlib, gzip, frame codec (when
\* linked), raw deflate; one is tried only when all before it rejected the
\* buffer; the output of the first that accepts is the payload; and the
\* decode fails with DecompressionFailed exactly when all of them reject.
C18_FallbackChain ==
    BlockRead =>
        LET comp == BlockOf(fh)
            order == ChainOrder(LZ4_AVAILABLE)
            n == Len(codecs)
        IN  /\ n >= 1
            /\ n <= Len(order)
            /\ codecs = SubSeq(order, 1, n)
            /\ \A i \in 1..(n - 1) : RunCodec(codecs[i], comp) = None
            /\ IF RunCodec(codecs[n], comp) = None
               THEN n = Len(order) /\ result = Err(DecompressionFailed)
               ELSE /\ result # Err(DecompressionFailed)
                    /\ pc = "payload" => raw = RunCodec(codecs[n], comp)
            /\ (result = Err(DecompressionFailed))
                  <=> \A i \in 1..Len(order) : RunCodec(order[i], comp) = None

\* without the frame codec, a raw-deflate block has just been inflated after
\* zlib and gzip refused it
C18_Witness ==
    /\ pc = "payload"
    /\ written.kind = "compressed"
    /\ written.fmt = "deflate"
    /\ ~LZ4_AVAILABLE
    /\ codecs = <<"zlib", "gzip", "deflate">>
    /\ Len(written.pts) = 2
    /\ raw = Some(Encode(written.L, written.pts))

----------------------------------------------------------------------------
(* The coordinate columns *)

\* x, y, z by name without regard to case; 0, 1, 2 when a name is missing
NamedColumns(fields) ==
    LET fields_l == lower_all(fields)
    IN  IF Occurs(fields_l, name_x) /\ Occurs(fields_l, name_y) /\ Occurs(fields_l, name_z)
        THEN <<index(fields_l, name_x), index(fields_l, name_y), index(fields_l, name_z)>>
        ELSE <<0, 1, 2>>

\* C19: the x, y, z columns are those FIELDS names x, y, z, in any case; when
\* one of the names is missing the decode does not fail for it and reads the
\* columns 0, 1, 2, in ASCII mode and, once the records are built, in the
\* binary modes.
C19_ColumnsByNameOrPosition ==
    /\ (Done /\ data_type = kw_ascii) =>
          LET pts == ascii_pts(fh.rows, NamedColumns(hdr.fields))
          IN  result = IF pts = <<>> THEN Err(EmptyPointCloud) ELSE Ok(pts)
    /\ (Done /\ is_binary(data_type) /\ structured # <<>>) =>
          /\ result.status = "ok"
          /\ result.points =
                FiniteOnly([k \in 1..structured.n |->
                              record_point(structured, k - 1, NamedColumns(hdr.fields))])

----------------------------------------------------------------------------
(* Records decoded and the point count *)

\* C20: in the binary modes the records np.frombuffer yields are exactly as
\* many as the point count the payload read settled on, so no successful
\* decode returns more points than that count, however many bytes the stream
\* or the decompressed buffer holds beyond point_count x stride.
C20_NoRecordsBeyondCount ==
    (Done /\ is_binary(data_type) /\ structured # <<>>)
        => /\ structured.n = layout.num_points
           /\ result.status = "ok" => Len(result.points) <= layout.num_points

----------------------------------------------------------------------------
(* The point count derived from the payload *)

\* the bytes the payload offers: the buffer the codecs gave for a compressed
\* block, the bytes of the stream behind the header otherwise
AvailableBytes ==
    IF is_compressed(data_type)
    THEN Len(decompress_chain(BlockOf(fh), LZ4_AVAILABLE).decompressed[1])
    ELSE Len(fh.bytes)

\* the payload read has settled on a point count
CountSettled == pc \in {"read", "records", "done", "returned"} /\ layout # <<>>

\* C21: when neither POINTS nor WIDTH x HEIGHT resolves the point count, the
\* count is floor(available_bytes / stride), available_bytes being the length
\* of the decompressed buffer in binary_compressed mode and the bytes left to
\* the end of the file in binary mode.
C21_InferredCountFromAvailableBytes ==
    (CountSettled /\ hdr.num_points = None)
        => layout.num_points = floordiv(AvailableBytes, layout.bytes_per_point)

----------------------------------------------------------------------------
(* The declared uncompressed size *)

\* the same file with another uncompressed size in its block header
WithDeclaredSize(file, u) == [file EXCEPT !.bytes = SubSeq(file.bytes, 1, 4) \o U32Bytes(u)]

OtherDeclaredSizes == {0, 1, 15, 16, 17, 32, 48, 255}

\* the buffer the codecs gave for the block of the file
Decompressed == decompress_chain(BlockOf(fh), LZ4_AVAILABLE).decompressed

\* C22: the declared uncompressed_size is advisory.  When the header resolves
\* the point count, a binary_compressed file decodes to the same outcome
\* whatever size its block header declares; and in every case the records
\* decoded are a view of the decompressed buffer, so that their number is
\* bounded by its actual length and not by the declared size.
C22_DeclaredSizeIsAdvisory ==
    /\ (Done /\ is_compressed(data_type) /\ Len(fh.bytes) = 8 /\ hdr.num_points # None)
          => \A u \in OtherDeclaredSizes :
                ReadPcd(WithDeclaredSize(fh, u), LZ4_AVAILABLE) = result
    /\ (is_compressed(data_type) /\ structured # <<>>)
          => /\ structured.n * itemsize(structured.dtype) <= Len(Decompressed[1])
             /\ structured.buf = SubSeq(Decompressed[1], 1, Len(structured.buf))

\* a block of two records, one byte short, under POINTS 2 and a block header
\* that declares the size of the whole two: one point is returned
C22_Witness ==
    /\ Done
    /\ written.kind = "compressed"
    /\ written.how = "good"
    /\ written.bs = [trim |-> 1, usize |-> 32, points |-> TRUE]
    /\ hdr.num_points = Some(2)
    /\ result.status = "ok"
    /\ Len(result.points) = 1
    /\ Len(Decompressed[1]) = 31
    /\ structured.n = 1

----------------------------------------------------------------------------
(* Fields of several elements *)

\* size x count of field i as the header declares them, count 1 without COUNT
DeclaredWidth(h, i) ==
    int(h.size[i]) * (IF Truthy(h.count) THEN int(h.count[i]) ELSE 1)

\* where field i starts in a record whose fields each take size x count bytes
DeclaredOffset(h, i) == Sum([j \in 1..(i - 1) |-> DeclaredWidth(h, j)])

\* the coordinate in column col of record k: the first element of the field,
\* read where the declared widths of the fields before it place it
FirstElement(h, st, k, col) ==
    LET at == k * DeclaredOffset(h, Len(h.fields) + 1) + DeclaredOffset(h, col + 1)
    IN  to_float(st.dtype[col + 1].base, SubSeq(st.buf, at + 1, at + int(h.size[col + 1])))

\* C23: the stride is the sum over the fields of size x count, count being 1
\* for every field when COUNT is absent; a field of count c > 1 occupies
\* size x c bytes of each record, so that the field after it starts that much
\* later; and a field of several elements chosen as x, y or z gives its first
\* element.
C23_MultiCountFields ==
    /\ (CountSettled /\ ~LayoutMismatch(hdr))
          => layout.bytes_per_point = DeclaredOffset(hdr, Len(hdr.fields) + 1)
    /\ (structured # <<>> /\ ~LayoutMismatch(hdr))
          => \A i \in 1..(Len(hdr.fields) - 1) :
                layout.counts[i] > 1 =>
                    structured.dtype[i + 1].offset
                        = structured.dtype[i].offset + DeclaredWidth(hdr, i)
    /\ (Done /\ structured # <<>> /\ ~LayoutMismatch(hdr) /\ result.status = "ok"
          /\ \E i \in 1..Len(hdr.fields) : layout.counts[i] > 1)
          => LET cols == binary_columns(hdr.fields)
             IN  result.points =
                    FiniteOnly([k \in 1..layout.num_points |->
                        << FirstElement(hdr, structured, k - 1, cols[1]),
                           FirstElement(hdr, structured, k - 1, cols[2]),
                           FirstElement(hdr, structured, k - 1, cols[3]) >>])

----------------------------------------------------------------------------
(* The stride *)

\* the errors _read_pcd raises itself
DecodeErrors ==
    { EmptyPointCloud, InvalidBlockHeader, TruncatedPayload, DecompressionFailed,
      IncompleteLayout, NoBinaryData, UnsupportedFieldType, UnsupportedDataType }

\* the header gives a layout whose sizes and counts sum to a stride of 0
ZeroStride(h) == layout_error(h) = None /\ bytes_per_point_of(h) = 0

\* C24: in the binary modes a decode that gets past the layout has a stride of
\* at least 1; a header whose sizes and counts sum to 0 is refused with a
\* decode error before the stride divides a byte count or sizes a read.
C24_StridePositive ==
    /\ CountSettled => layout.bytes_per_point >= 1
    /\ (Done /\ is_binary(data_type) /\ BlockPassed /\ ZeroStride(hdr))
          => /\ result.status = "error"
             /\ result.kind \in DecodeErrors
             /\ layout = <<>>

----------------------------------------------------------------------------
(* Termination of a call *)

\* a file with more lines behind its DATA line, among them a second DATA line
WithTrailingLines(file) ==
    [file EXCEPT !.lines = file.lines \o DeclLines(<<"POINTS", 9>>) \o DataLine(M_other)]

LiveFiles ==
    TwoCallFiles
        \cup { BinaryFile(LayoutXYZ, <<"POINTS", 1>>, OnePoint, 6),
               OddFile(Odd(XYZ, <<>>, <<"F","F","F">>, <<>>), <<"none">>, 12) }
        \cup { WithTrailingLines(f) :
                 f \in { AsciiFile(Header(LayoutRGB, <<"none">>, M_ascii), TwoRows),
                         BinaryFile(LayoutXYZ, <<"none">>, TwoPoints, 24),
                         HeaderOnlyFile(LayoutXYZ, <<"none">>) } }

InitLive ==
    \E file \in LiveFiles, lz4 \in BOOLEAN :
        Start([kind |-> "live"], file, lz4)

\* _read_pcd is one thread of straight-line code with bounded loops: a
\* statement that can run does run
SpecLive == InitLive /\ [][Next]_vars /\ WF_vars(Next)

\* the order of the stages
Rank(p) ==
    CASE p = "start" -> 0 [] p = "header" -> 1 [] p = "resolved" -> 2 [] p = "payload" -> 3
      [] p = "read" -> 4 [] p = "records" -> 5 [] p = "done" -> 6 [] p = "returned" -> 7

\* the header loop stopped at the first line that starts with DATA, or at the
\* end of the stream
StoppedAtData ==
    LET n == Len(header_lines)
    IN  /\ n <= Len(fh.lines)
        /\ header_lines = SubSeq(fh.lines, 1, n)
        /\ \A i \in 1..(n - 1) : ~line_startswith(fh.lines[i], kw_data)
        /\ n = Len(fh.lines) \/ line_startswith(fh.lines[n], kw_data)

\* what was read of the payload is a piece of the stream
ReadsBounded ==
    /\ remaining >= 0
    /\ remaining <= Max(Len(fh.bytes), fh.avail)
    /\ (raw # None /\ ~is_compressed(data_type))
          => (Len(raw[1]) <= Len(fh.bytes) /\ raw[1] = SubSeq(fh.bytes, 1, Len(raw[1])))
    /\ (raw # None /\ is_compressed(data_type)) => BlockOf(fh).got <= fh.avail

\* C25: every call on a finite file ends, in exactly one outcome: the points
\* extracted, or a failure.  The header loop ends at the first DATA line or at
\* the end of the stream, every payload read is bounded by the stream, and no
\* stage is entered twice.
C25_CallTerminates ==
    /\ <>Done
    /\ [](Done => result.status \in {"ok", "error"})
    /\ [](Rank(pc) < Rank("done") => result = NoResult)
    /\ [][result # NoResult => result' = result]_vars
    /\ [][Rank(pc') > Rank(pc)]_vars
    /\ [](pc # "start" => StoppedAtData)
    /\ []ReadsBounded

\* a call on a file with lines behind its DATA line has ended with the two
\* points of the payload, the header holding nothing of those lines
C25_Witness ==
    /\ Done
    /\ written.kind = "live"
    /\ Len(fh.lines) > Len(header_lines)
    /\ hdr.num_points = None
    /\ is_binary(data_type)
    /\ result = Ok(TwoPoints)

----------------------------------------------------------------------------
(* The coordinate columns across the data modes *)

\* C26: the columns read as x, y, z do not depend on the data mode: for every
\* FIELDS list, also one that names only some of x, y, z, the three indices
\* the ASCII rows are read by are the three the binary records are read by.
C26_ColumnsSameInEveryMode ==
    (Rank(pc) >= Rank("resolved") /\ Truthy(hdr.fields))
        => ascii_columns(hdr.fields) = binary_columns(hdr.fields)

----------------------------------------------------------------------------
(* A window used for one load after another *)

\* no call of _read_pcd has been made
Idle(w) ==
    /\ written = w
    /\ fh = EmptyFile
    /\ LZ4_AVAILABLE = FALSE
    /\ pc = "idle"
    /\ header_lines = <<>>
    /\ data_type = Unbound
    /\ hdr = NoHeader
    /\ raw = None
    /\ uncomp_size = None
    /\ remaining = 0
    /\ layout = <<>>
    /\ structured = <<>>
    /\ codecs = <<>>
    /\ result = NoResult
    /\ second = NoCall

\* the handler is not running
Returned == pc \in {"idle", "returned", "cancelled"}

\* files of two points, of one point, of no point, of non-finite points only,
\* and files the decoder refuses
LoadFiles ==
    { BinaryFile(LayoutXYZ, <<"none">>, TwoPoints, 24),
      AsciiFile(Header(LayoutXYZ, <<"POINTS", 2>>, M_ascii), << <<Tok_1, Tok_2, Tok_3>> >>),
      GoodBlock(LayoutRGB, OnePoint, "gzip", WholeBlock(16)),
      BinaryFile(LayoutXYZ, <<"POINTS", 0>>, <<>>, 0),
      BinaryFile(LayoutXYZ, <<"none">>, << <<Flt_1, NaN, Inf(1)>> >>, 12),
      AsciiFile(Preamble \o DataLine(M_ascii), <<>>),
      HeaderOnlyFile(LayoutXYZ, <<"none">>),
      OtherModeFile(LayoutXYZ, OnePoint) }

\* lines 319-325: a file is chosen in the dialog and _read_pcd is called on it
Open ==
    /\ Returned
    /\ \E file \in LoadFiles : fh' = file
    /\ pc' = "start"
    /\ header_lines' = <<>>
    /\ data_type' = Unbound
    /\ hdr' = NoHeader
    /\ raw' = None
    /\ uncomp_size' = None
    /\ remaining' = 0
    /\ layout' = <<>>
    /\ structured' = <<>>
    /\ codecs' = <<>>
    /\ result' = NoResult
    /\ UNCHANGED <<caller, written, LZ4_AVAILABLE>>

\* lines 319-321: the dialog is dismissed and the handler returns
Cancel ==
    /\ Returned
    /\ pc' = "cancelled"
    /\ UNCHANGED <<caller, written, fh, LZ4_AVAILABLE, header_lines, data_type, hdr, raw,
                   uncomp_size, remaining, layout, structured, codecs, result>>

NextLoads ==
    \/ Next
    \/ Open
    \/ Cancel

InitLoads ==
    \E has_plotter \in BOOLEAN :
        /\ Idle([kind |-> "loads"])
        /\ Viewer(Constructed(has_plotter))
        /\ arduino = NoReader

SpecLoads == InitLoads /\ [][NextLoads]_vars

\* C27: after any sequence of load attempts - successful, failing, cancelled
\* or yielding an empty geometry - the stored mesh is None or a geometry of at
\* least one point; a decode result of no point never replaces the stored mesh.
C27_MeshNeverEmpty ==
    /\ [](mesh = None \/ n_points(mesh[1]) >= 1)
    /\ [][ (pc = "done" /\ result.status = "ok" /\ n_points(result.points) = 0)
              => mesh' = mesh ]_vars
    /\ [][ mesh' # mesh
              => (pc = "done" /\ result.status = "ok" /\ mesh' = Some(result.points)) ]_vars

\* after a load of two points, a later load that decoded no point has
\* returned and the two points are still the stored mesh
C27_Witness ==
    /\ pc = "returned"
    /\ result = Ok(<<>>)
    /\ mesh = Some(TwoPoints)
    /\ written.kind = "loads"

----------------------------------------------------------------------------
(* The camera: _orbit and _fit_view, lines 415-419 and 442-466 *)

\* Azimuth and elevation are floats that start at 45.0 and 30.0 and move by
\* whole degrees; every value they take is an integer a float holds exactly,
\* and they are kept as integers here.

\* lines 415-418: the four orbit buttons of the manipulator
OrbitButtons ==
    { [name |-> "left", delta_az |-> 0 - 15, delta_el |-> 0],
      [name |-> "right", delta_az |-> 15, delta_el |-> 0],
      [name |-> "up", delta_az |-> 0, delta_el |-> 10],
      [name |-> "down", delta_az |-> 0, delta_el |-> 0 - 10] }

\* the elevation added to without the clamp
_orbit_unclamped(delta_az, delta_el) ==
    /\ cam_az' = (cam_az + delta_az) % 360
    /\ cam_el' = cam_el + delta_el

\* lines 442-445
_orbit(delta_az, delta_el) ==
    /\ cam_az' = (cam_az + delta_az) % 360
    /\ cam_el' = Max(0 - 89, Min(89, cam_el + delta_el))

\* lines 415-418: a click on an orbit button; _create_manipulator builds the
\* buttons only on a window that has a plotter (line 374)
orbit_clicked ==
    /\ Returned
    /\ plotter # None
    /\ \E b \in OrbitButtons :
          /\ _orbit(b.delta_az, b.delta_el)
          /\ clicked' = Some(b.name)
    /\ UNCHANGED <<decoder, mesh, plotter, info_label, second, arduino>>

\* lines 447-466, on a click on Fit View (line 53) or on the button in the
\* middle of the manipulator (line 419); the centre and distance it computes
\* from the mesh are not part of the state kept here
_fit_view ==
    /\ Returned
    /\ cam_az' = 45
    /\ cam_el' = 30
    /\ clicked' = Some("fit_view")
    /\ UNCHANGED <<decoder, mesh, plotter, info_label, second, arduino>>

NextCamera ==
    \/ orbit_clicked
    \/ _fit_view

InitCamera ==
    \E v \in ViewerStates :
        /\ Idle([kind |-> "camera"])
        /\ Viewer(v)
        /\ arduino = NoReader

SpecCamera == InitCamera /\ [][NextCamera]_vars

\* C30: after any sequence of clicks on the orbit buttons (azimuth -15 / +15,
\* elevation +10 / -10) and on Fit View, the elevation is within [-89, 89] and
\* the azimuth within [0, 360); after a Fit View they are 45 and 30.
C30_CameraInRange ==
    /\ cam_el >= 0 - 89
    /\ cam_el <= 89
    /\ cam_az >= 0
    /\ cam_az < 360
    /\ clicked = Some("fit_view") => (cam_az = 45 /\ cam_el = 30)

\* the camera has been turned left past 0 degrees and raised until the clamp
\* stopped it
C30_Witness ==
    /\ clicked = Some("up")
    /\ cam_az = 345
    /\ cam_el = 89

----------------------------------------------------------------------------
(* ArduinoReader: close, start_background and the background loop,
   src/GUI/Arduino.py *)

\* The reader is one record: ser is "none" (self.ser is None), "open" or
\* "closed"; _stop_event is the flag of the threading.Event; _thread is "none"
\* (self._thread is None), the position of the loop of the thread, or
\* "exited"; callback tells whether a callback was given; main is the
\* position of the thread that calls close() and start_background(), and last
\* names the call that returned last.
Reader(ser, callback) ==
    [ser |-> ser, _stop_event |-> FALSE, _thread |-> "none", callback |-> callback,
     main |-> "idle", last |-> "none"]

\* threading.Thread.is_alive()
is_alive(t) == t \in {"check", "read", "readline"}

\* a step of the reader leaves the window and the decoder alone
ReaderStep(r) ==
    /\ arduino' = r
    /\ UNCHANGED <<decoder, mesh, plotter, info_label, second, camera>>

\* line 67
close_set ==
    /\ arduino.main = "idle"
    /\ ReaderStep([arduino EXCEPT !._stop_event = TRUE, !.main = "close_join"])

\* lines 68-69: join returns when the thread has ended, or after its timeout
\* of one second with the thread still running
close_join ==
    /\ arduino.main = "close_join"
    /\ ReaderStep([arduino EXCEPT !.main = "close_port"])

\* lines 70-74
close_port ==
    /\ arduino.main = "close_port"
    /\ ReaderStep([arduino EXCEPT !.ser = IF @ = "open" THEN "closed" ELSE @,
                                  !.main = "idle", !.last = "close"])

\* lines 160-163: RuntimeError without a callback; an early return while the
\* thread is alive
start_check ==
    /\ arduino.main = "idle"
    /\ ReaderStep(IF ~arduino.callback THEN [arduino EXCEPT !.last = "raised"]
                  ELSE IF is_alive(arduino._thread)
                       THEN [arduino EXCEPT !.last = "start_background"]
                  ELSE [arduino EXCEPT !.main = "start_clear"])

\* line 164
start_clear ==
    /\ arduino.main = "start_clear"
    /\ ReaderStep([arduino EXCEPT !._stop_event = FALSE, !.main = "start_thread"])

\* lines 165-166
start_thread ==
    /\ arduino.main = "start_thread"
    /\ ReaderStep([arduino EXCEPT !._thread = "check", !.main = "idle",
                                  !.last = "start_background"])

\* line 130
loop_check ==
    /\ arduino._thread = "check"
    /\ ReaderStep([arduino EXCEPT !._thread = IF arduino._stop_event THEN "exited" ELSE "read"])

\* lines 132 and 97-98: read_line connects when the port is not open;
\* serial.Serial may raise, and the loop goes round (133-134)
loop_connect ==
    /\ arduino._thread = "read"
    /\ IF arduino.ser = "open"
       THEN ReaderStep([arduino EXCEPT !._thread = "readline"])
       ELSE \E opened \in BOOLEAN :
               ReaderStep(IF opened THEN [arduino EXCEPT !.ser = "open", !._thread = "readline"]
                          ELSE [arduino EXCEPT !._thread = "check"])

\* lines 99-103 and 133-153: readline returns a line, which goes to the
\* callbacks, or nothing, or raises on a port closed meanwhile; in each case
\* the loop goes round
loop_readline ==
    /\ arduino._thread = "readline"
    /\ ReaderStep([arduino EXCEPT !._thread = "check"])

NextReader ==
    \/ close_set
    \/ close_join
    \/ close_port
    \/ start_check
    \/ start_clear
    \/ start_thread
    \/ loop_check
    \/ loop_connect
    \/ loop_readline

\* lines 18-33: auto_connect opens the port in __init__
InitReader ==
    \E auto_connect \in BOOLEAN, callback \in BOOLEAN :
        /\ arduino = Reader(IF auto_connect THEN "open" ELSE "none", callback)
        /\ Idle([kind |-> "reader"])
        /\ Viewer(Constructed(TRUE))

SpecReader == InitReader /\ [][NextReader]_vars

\* C28: under every interleaving of close() with the background loop, also
\* when the join of close() times out while the loop stands between its stop
\* check and its read, the port is closed once close() has returned and the
\* thread has ended; the loop never reopens a port that close() has closed.
C28_ClosedAfterClose ==
    /\ []( (arduino.main = "idle" /\ arduino.last = "close" /\ ~is_alive(arduino._thread))
              => arduino.ser # "open" )
    /\ [][ ~(arduino.last = "close" /\ arduino.main = "idle"
                /\ arduino.ser = "closed" /\ arduino'.ser = "open") ]_vars

\* C29: whenever start_background() returns without raising, also right after
\* a close(), a background thread is alive and the stop event is clear.
C29_StartedAfterStart ==
    (arduino.main = "idle" /\ arduino.last = "start_background")
        => (is_alive(arduino._thread) /\ ~arduino._stop_event)

====
